---- MODULE Spec2Model ----
\* Model of the task-management use cases (internal/usecase/task_usecase.go)
\* running on the in-memory repository
\* (internal/infrastructure/memory/memory_repository.go), the domain rules
\* (internal/domain/task.go, user.go) and the runtime invariant checker
\* (pkg/invariants, listed in README.md).
\*
\* Time is a logical clock counted in days: time.Now() reads `now`, which the
\* Tick action advances.  Go maps are modelled as TLA+ functions; a user whose
\* index entry is nil and a user whose entry is an empty map are both
\* userTasks[u] = {} (no code path tells them apart).
EXTENDS Integers, FiniteSets, Sequences, TLC

VARIABLES
    tasks,        \* MemoryRepository.tasks      : TaskID -> Task
    userTasks,    \* MemoryRepository.userTasks  : UserID -> set of TaskID
    nextTaskID,   \* MemoryRepository.nextTaskID
    currentUser,  \* MemoryRepository.currentUser (NULL = nil)
    clock,        \* MemoryRepository.clock (set once by the constructor)
    sessions,     \* MemoryRepository.sessions   : token -> Session
    now,          \* the wall clock read by time.Now()
    calls         \* the use-case call each concurrent caller is in, with its local variables

vars == <<tasks, userTasks, nextTaskID, currentUser, clock, sessions, now, calls>>

\* ---------------------------------------------------------------------------
\* Bounds of the model
\* ---------------------------------------------------------------------------
MaxTasks == 2
MaxTime == 1
MaxSessions == 2
\* goroutines that call the use cases at the same time, and the calls each makes
MaxCallers == 2
MaxCallsPerCaller == 1
\* the calls of a caller that logs in and then creates tasks, one call after the other
MaxCallsInSequence == 3

\* 24 * time.Hour, in days
SessionTTL == 1

NULL == "NULL"

\* users registered in the repository (initializeDefaultUsers / setupTestUsers)
Users == {"alice", "bob"}
\* a user id that is not registered
UnknownUser == "mallory"
UserIDs == Users \cup {UnknownUser}

\* ---------------------------------------------------------------------------
\* internal/domain/task.go
\* ---------------------------------------------------------------------------
StatusPending == "pending"
StatusInProgress == "in_progress"
StatusCompleted == "completed"
StatusCancelled == "cancelled"
StatusBlocked == "blocked"

TaskStates == {StatusPending, StatusInProgress, StatusCompleted, StatusCancelled, StatusBlocked}

Priorities == {"low", "medium", "high", "critical"}

Tags == {"bug", "feature", "enhancement", "documentation"}

ValidTransitions ==
    { <<StatusPending, StatusInProgress>>,
      <<StatusPending, StatusCancelled>>,
      <<StatusPending, StatusBlocked>>,
      <<StatusInProgress, StatusCompleted>>,
      <<StatusInProgress, StatusCancelled>>,
      <<StatusInProgress, StatusBlocked>>,
      <<StatusInProgress, StatusPending>>,
      <<StatusBlocked, StatusPending>>,
      <<StatusBlocked, StatusInProgress>>,
      <<StatusBlocked, StatusCancelled>> }

\* IsValidTransition with a fault: a self-transition passes
IsValidTransitionOrSame(from, to) == <<from, to>> \in ValidTransitions \/ from = to


IsValidTransition(from, to) == <<from, to>> \in ValidTransitions

CanDelete(t) == t.status = StatusCompleted \/ t.status = StatusCancelled

\* ShouldUnblock with a fault: a task that has a dependency is never released
ShouldUnblockWithoutDependencies(t, allTasks) == t.status = StatusBlocked /\ t.dependencies = {}

\* ShouldUnblock with a fault: the dependencies are not looked at
ShouldUnblockAnyBlocked(t, allTasks) == t.status = StatusBlocked

\* a dependency that is not in allTasks is skipped
ShouldUnblock(t, allTasks) ==
    /\ t.status = StatusBlocked
    /\ \A depID \in t.dependencies :
           depID \in DOMAIN allTasks => allTasks[depID].status = StatusCompleted

isValidStatus(status) == status \in TaskStates

isValidPriority(priority) == priority \in Priorities

isValidTag(tag) == tag \in Tags

\* Task.Validate: "nil" or the first failing check
Validate(t) ==
    IF t.title = "" THEN "task title cannot be empty"
    ELSE IF t.description = "" THEN "task description cannot be empty"
    ELSE IF ~isValidStatus(t.status) THEN "invalid task status"
    ELSE IF ~isValidPriority(t.priority) THEN "invalid task priority"
    ELSE IF t.assignee = "" THEN "task must have an assignee"
    ELSE IF t.createdBy = "" THEN "task must have a creator"
    ELSE IF t.createdAt > t.updatedAt THEN "created time cannot be after updated time"
    ELSE IF \E tag \in t.tags : ~isValidTag(tag) THEN "invalid tag"
    ELSE "nil"

\* ---------------------------------------------------------------------------
\* internal/domain/user.go
\* ---------------------------------------------------------------------------
IsExpired(s, t) == t > s.expiresAt

IsValid(s, t) == s.active /\ ~IsExpired(s, t)

\* ---------------------------------------------------------------------------
\* internal/infrastructure/memory/memory_repository.go
\* Every repository method takes the lock for its whole body, so each is one
\* atomic function of the store.
\* ---------------------------------------------------------------------------

\* CreateTask with a fault: the assignee's index is not updated
RepoCreateTaskNoIndex(ts, ut, nid, task) ==
    IF task.id \in DOMAIN ts
    THEN [err |-> "task already exists", tasks |-> ts, userTasks |-> ut, nextTaskID |-> nid]
    ELSE [err |-> "nil",
          tasks |-> [i \in DOMAIN ts \cup {task.id} |-> IF i = task.id THEN task ELSE ts[i]],
          userTasks |-> ut,
          nextTaskID |-> nid]

\* CreateTask: the task under its id, and the id in its assignee's index
\* (a task handed in with id 0 takes the counter's value and advances it)
RepoCreateTask(ts, ut, nid, task) ==
    LET t == IF task.id = 0 THEN [task EXCEPT !.id = nid] ELSE task
        n == IF task.id = 0 THEN nid + 1 ELSE nid
    IN  IF t.id \in DOMAIN ts
        THEN [err |-> "task already exists", tasks |-> ts, userTasks |-> ut, nextTaskID |-> n]
        ELSE [err |-> "nil",
              tasks |-> [i \in DOMAIN ts \cup {t.id} |-> IF i = t.id THEN t ELSE ts[i]],
              userTasks |-> [ut EXCEPT ![t.assignee] = @ \cup {t.id}],
              nextTaskID |-> n]

\* UpdateTask: replaces the stored task; on an assignee change the id moves
\* from the stored assignee's index to the new assignee's index
RepoUpdateTask(ts, ut, task) ==
    IF task.id \notin DOMAIN ts
    THEN [err |-> "task not found", tasks |-> ts, userTasks |-> ut]
    ELSE [err |-> "nil",
          tasks |-> [ts EXCEPT ![task.id] = task],
          userTasks |->
              IF ts[task.id].assignee # task.assignee
              THEN [[ut EXCEPT ![ts[task.id].assignee] = @ \ {task.id}]
                        EXCEPT ![task.assignee] = @ \cup {task.id}]
              ELSE ut]

\* DeleteTask: out of its assignee's index and out of the task map
RepoDeleteTask(ts, ut, id) ==
    IF id \notin DOMAIN ts
    THEN [err |-> "task not found", tasks |-> ts, userTasks |-> ut]
    ELSE [err |-> "nil",
          tasks |-> [i \in DOMAIN ts \ {id} |-> ts[i]],
          userTasks |-> [ut EXCEPT ![ts[id].assignee] = @ \ {id}]]

GetTasksByStatus(ts, status) == {i \in DOMAIN ts : ts[i].status = status}

\* GetTasksByDependency with a fault: completed dependents are left out
GetTasksByDependencyOpen(ts, taskID) ==
    {i \in DOMAIN ts : taskID \in ts[i].dependencies /\ ts[i].status # StatusCompleted}


GetTasksByDependency(ts, taskID) == {i \in DOMAIN ts : taskID \in ts[i].dependencies}

\* BulkUpdateStatus: every listed id that exists gets the status; others are skipped
RepoBulkUpdateStatus(ts, taskIDs, status, t) ==
    [i \in DOMAIN ts |->
        IF i \in taskIDs THEN [ts[i] EXCEPT !.status = status, !.updatedAt = t] ELSE ts[i]]

AddUserTask(ut, userID, taskID) == [ut EXCEPT ![userID] = @ \cup {taskID}]

RemoveUserTask(ut, userID, taskID) == [ut EXCEPT ![userID] = @ \ {taskID}]

\* GetSessionByUser: the tokens of the user's valid sessions (the code returns
\* the first one its map iteration meets)
GetSessionByUser(sess, userID, t) ==
    {tok \in DOMAIN sess : sess[tok].userID = userID /\ IsValid(sess[tok], t)}

RepoCreateSession(sess, session) ==
    [tok \in DOMAIN sess \cup {session.token} |->
        IF tok = session.token THEN session ELSE sess[tok]]

\* GetSystemState: the snapshot handed to the invariant checker.  UserTasks has
\* a key only for a user with at least one task id; Sessions keeps the valid
\* sessions, by user.
GetSystemState(ts, ut, nid, cu, clk, sess, t) ==
    [Tasks |-> ts,
     UserTasks |-> [u \in {x \in DOMAIN ut : ut[x] # {}} |-> ut[u]],
     NextTaskID |-> nid,
     CurrentUser |-> cu,
     Clock |-> clk,
     Sessions |-> {sess[tok].userID : tok \in {k \in DOMAIN sess : IsValid(sess[k], t)}}]

\* the snapshot of the store as it is
Snapshot == GetSystemState(tasks, userTasks, nextTaskID, currentUser, clock, sessions, now)

\* ---------------------------------------------------------------------------
\* Depth-first cycle search shared by the use case's checkCyclicDependencies
\* and the checker's hasCycle.  g maps a node to its dependency set; a node
\* outside DOMAIN g has no edges.  st = [visited, recStack, cycle].  The Go
\* code ranges over a map in unspecified order; the result does not depend on
\* the order, and the model takes the ids in increasing order.
\* ---------------------------------------------------------------------------
RECURSIVE dfsVisit(_, _, _)
RECURSIVE dfsEdges(_, _, _, _)

dfsEdges(todo, taskID, g, st) ==
    IF todo = {}
    THEN [st EXCEPT !.recStack = @ \ {taskID}]
    ELSE LET depID == CHOOSE d \in todo : \A e \in todo : d <= e
         IN  IF depID \notin st.visited
             THEN LET r == dfsVisit(depID, g, st)
                  IN  IF r.cycle THEN r ELSE dfsEdges(todo \ {depID}, taskID, g, r)
             ELSE IF depID \in st.recStack
                  THEN [st EXCEPT !.cycle = TRUE]
                  ELSE dfsEdges(todo \ {depID}, taskID, g, st)

dfsVisit(taskID, g, st) ==
    dfsEdges(IF taskID \in DOMAIN g THEN g[taskID] ELSE {}, taskID, g,
             [st EXCEPT !.visited = @ \cup {taskID}, !.recStack = @ \cup {taskID}])

dfsStart == [visited |-> {}, recStack |-> {}, cycle |-> FALSE]

\* ---------------------------------------------------------------------------
\* pkg/invariants (README.md, "Runtime invariant checker" listing)
\* ---------------------------------------------------------------------------
StateGetUserTasks(state, userID) ==
    IF userID \in DOMAIN state.UserTasks THEN state.UserTasks[userID] ELSE {}

\* every task id is in some user's list
checkNoOrphanTasks(state) ==
    \A taskID \in DOMAIN state.Tasks :
        \E u \in DOMAIN state.UserTasks : taskID \in state.UserTasks[u]

\* checkTaskOwnership with a fault: any user's list will do
checkTaskOwnershipAnyList(state) ==
    \A taskID \in DOMAIN state.Tasks :
        \E u \in DOMAIN state.UserTasks : taskID \in state.UserTasks[u]

\* every task id is in its assignee's list
checkTaskOwnership(state) ==
    \A taskID \in DOMAIN state.Tasks :
        taskID \in StateGetUserTasks(state, state.Tasks[taskID].assignee)

checkValidTaskIds(state) ==
    \A taskID \in DOMAIN state.Tasks : taskID >= 1 /\ taskID < state.NextTaskID

checkNoDuplicateTaskIds(state) ==
    \A taskID \in DOMAIN state.Tasks : taskID = state.Tasks[taskID].id

checkValidStateTransitions(state) ==
    \A taskID \in DOMAIN state.Tasks : state.Tasks[taskID].status \in TaskStates

\* (the comparison of updatedAt with the clock is commented out in the code)
checkConsistentTimestamps(state) ==
    \A taskID \in DOMAIN state.Tasks :
        ~(state.Tasks[taskID].createdAt > state.Tasks[taskID].updatedAt)

hasCycle(taskID, state) ==
    dfsVisit(taskID, [i \in DOMAIN state.Tasks |-> state.Tasks[i].dependencies], dfsStart).cycle

checkNoCyclicDependencies(state) ==
    \A taskID \in DOMAIN state.Tasks : ~hasCycle(taskID, state)

checkAuthenticationRequired(state) ==
    \A taskID \in DOMAIN state.Tasks : state.Tasks[taskID].createdBy # ""

\* CheckAllInvariants: "nil" or the name of the first violated invariant
CheckAllInvariants(state) ==
    IF ~checkNoOrphanTasks(state) THEN "NoOrphanTasks violated"
    ELSE IF ~checkTaskOwnership(state) THEN "TaskOwnership violated"
    ELSE IF ~checkValidTaskIds(state) THEN "ValidTaskIds violated"
    ELSE IF ~checkNoDuplicateTaskIds(state) THEN "NoDuplicateTaskIds violated"
    ELSE IF ~checkValidStateTransitions(state) THEN "ValidStateTransitions violated"
    ELSE IF ~checkConsistentTimestamps(state) THEN "ConsistentTimestamps violated"
    ELSE IF ~checkNoCyclicDependencies(state) THEN "NoCyclicDependencies violated"
    ELSE IF ~checkAuthenticationRequired(state) THEN "AuthenticationRequired violated"
    ELSE "nil"

\* ---------------------------------------------------------------------------
\* internal/usecase/task_usecase.go
\* A use case is a function of the store and its arguments: XOutcome is what
\* the call X returns (err, "nil" for success, and the returned value ret) and
\* the store it leaves behind; the action X puts that store in place.  An early
\* return leaves the store as it was.  Rollback is empty in the repository, so
\* a call that fails its invariant check leaves its writes in the store.
\* ---------------------------------------------------------------------------
Outcome(err, ret, ts, ut, nid, cu, sess) ==
    [err |-> err, ret |-> ret, tasks |-> ts, userTasks |-> ut, nextTaskID |-> nid,
     currentUser |-> cu, sessions |-> sess]

Rejected(e) == Outcome(e, NULL, tasks, userTasks, nextTaskID, currentUser, sessions)

Return(r) ==
    /\ tasks' = r.tasks
    /\ userTasks' = r.userTasks
    /\ nextTaskID' = r.nextTaskID
    /\ currentUser' = r.currentUser
    /\ sessions' = r.sessions
    /\ UNCHANGED <<clock, now, calls>>

\* generateToken: 32 random bytes, modelled as a token no session has yet
generateToken(sess) == Cardinality(DOMAIN sess) + 1

\* Authenticate with a fault: a session the user already holds is not looked for
AuthenticateOutcomeSessionUnchecked(userID) ==
    LET session == [userID |-> userID, token |-> generateToken(sessions), active |-> TRUE,
                    createdAt |-> now, expiresAt |-> now + SessionTTL]
        sess2 == RepoCreateSession(sessions, session)
    IN  IF userID \notin Users THEN Rejected("user not found")
        ELSE Outcome("nil", session.token, tasks, userTasks, nextTaskID, userID, sess2)

AuthenticateOutcome(userID) ==
    LET existing == GetSessionByUser(sessions, userID, now)
        session == [userID |-> userID, token |-> generateToken(sessions), active |-> TRUE,
                    createdAt |-> now, expiresAt |-> now + SessionTTL]
        sess2 == RepoCreateSession(sessions, session)
        state == GetSystemState(tasks, userTasks, nextTaskID, userID, clock, sess2, now)
    IN  IF userID \notin Users THEN Rejected("user not found")
        ELSE IF existing # {} THEN Rejected("user already has an active session")
        ELSE IF CheckAllInvariants(state) # "nil"
             THEN Outcome("invariant violation", NULL, tasks, userTasks, nextTaskID, userID, sess2)
        ELSE Outcome("nil", session.token, tasks, userTasks, nextTaskID, userID, sess2)

\* (the session table of the model holds at most MaxSessions sessions)
Authenticate(userID) ==
    LET r == AuthenticateOutcome(userID)
    IN  /\ r.sessions # sessions => Cardinality(DOMAIN sessions) < MaxSessions
        /\ Return(r)

\* Logout deactivates the valid session of the user that GetSessionByUser
\* returns (tok; no token of the table when there is none)
\* Logout with a fault: the session is left active
LogoutOutcomeSessionKept(userID, tok) ==
    IF currentUser = NULL THEN Rejected("no user currently authenticated")
    ELSE IF currentUser # userID THEN Rejected("user is not the current user")
    ELSE Outcome("nil", NULL, tasks, userTasks, nextTaskID, NULL, sessions)

LogoutOutcome(userID, tok) ==
    IF currentUser = NULL THEN Rejected("no user currently authenticated")
    ELSE IF currentUser # userID THEN Rejected("user is not the current user")
    ELSE Outcome("nil", NULL, tasks, userTasks, nextTaskID, NULL,
                 IF tok \notin DOMAIN sessions THEN sessions
                 ELSE [sessions EXCEPT ![tok].active = FALSE])

Logout(userID) ==
    LET found == GetSessionByUser(sessions, userID, now)
    IN  \E tok \in (IF found = {} THEN {0} ELSE found) : Return(LogoutOutcome(userID, tok))

\* checkCyclicDependencies with a fault: the requested edges are left out
checkCyclicDependenciesStoredOnly(newTaskID, dependencies, allTasks) ==
    LET g == [i \in DOMAIN allTasks |-> allTasks[i].dependencies]
    IN  IF dfsVisit(newTaskID, g, dfsStart).cycle THEN "cyclic dependency detected" ELSE "nil"

\* checkCyclicDependencies: the search starts at the new task, whose requested
\* edges are used while it is not in allTasks
checkCyclicDependencies(newTaskID, dependencies, allTasks) ==
    LET g == [i \in DOMAIN allTasks \cup {newTaskID} |->
                 IF i \in DOMAIN allTasks THEN allTasks[i].dependencies ELSE dependencies]
    IN  IF dfsVisit(newTaskID, g, dfsStart).cycle THEN "cyclic dependency detected" ELSE "nil"

\* the dependency loop of CreateTask with a fault: a cancelled dependency passes
validateDependenciesExisting(dependencies, allTasks) ==
    IF \E d \in dependencies : d \notin DOMAIN allTasks
    THEN "dependency task does not exist"
    ELSE "nil"

\* the dependency loop of CreateTask: the first requested id that is missing
\* or cancelled decides the error (the ids are taken in increasing order)
validateDependencies(dependencies, allTasks) ==
    LET bad == {d \in dependencies :
                   d \notin DOMAIN allTasks \/ allTasks[d].status = StatusCancelled}
    IN  IF bad = {} THEN "nil"
        ELSE LET d == CHOOSE x \in bad : \A y \in bad : x <= y
             IN  IF d \notin DOMAIN allTasks THEN "dependency task does not exist"
                 ELSE "cannot depend on cancelled task"

\* the initial status with a fault: blocked for every task with a dependency
initialStatusBlockedWithDependencies(dependencies, allTasks) ==
    IF dependencies # {} THEN StatusBlocked ELSE StatusPending

\* the initial status CreateTask computes
initialStatus(dependencies, allTasks) ==
    IF dependencies # {} /\ \E d \in dependencies : allTasks[d].status # StatusCompleted
    THEN StatusBlocked
    ELSE StatusPending

\* CreateTask with a fault: the requested dependencies are stored as they
\* come, neither validated nor searched for a cycle
CreateTaskOutcomeDependenciesUnchecked(title, description, priority, assignee, dueDate, tags, dependencies) ==
    LET task == [id |-> nextTaskID, title |-> title, description |-> description,
                 status |-> IF dependencies # {} THEN StatusBlocked ELSE StatusPending,
                 priority |-> priority, assignee |-> assignee, createdBy |-> currentUser,
                 createdAt |-> now, updatedAt |-> now, dueDate |-> dueDate,
                 tags |-> tags, dependencies |-> dependencies]
        r == RepoCreateTask(tasks, userTasks, nextTaskID, task)
    IN  IF currentUser = NULL THEN Rejected("authentication required")
        ELSE IF nextTaskID > MaxTasks THEN Rejected("maximum number of tasks reached")
        ELSE Outcome("nil", task, r.tasks, r.userTasks, r.nextTaskID + 1, currentUser, sessions)

\* CreateTask with a fault: IncrementNextTaskID is not called
CreateTaskOutcomeCounterKept(title, description, priority, assignee, dueDate, tags, dependencies) ==
    LET task == [id |-> nextTaskID, title |-> title, description |-> description,
                 status |-> initialStatus(dependencies, tasks), priority |-> priority,
                 assignee |-> assignee, createdBy |-> currentUser,
                 createdAt |-> now, updatedAt |-> now, dueDate |-> dueDate,
                 tags |-> tags, dependencies |-> dependencies]
        r == RepoCreateTask(tasks, userTasks, nextTaskID, task)
    IN  IF currentUser = NULL THEN Rejected("authentication required")
        ELSE IF nextTaskID > MaxTasks THEN Rejected("maximum number of tasks reached")
        ELSE IF validateDependencies(dependencies, tasks) # "nil"
             THEN Rejected(validateDependencies(dependencies, tasks))
        ELSE IF r.err # "nil" THEN Rejected("failed to create task")
        ELSE Outcome("nil", task, r.tasks, r.userTasks, r.nextTaskID, currentUser, sessions)

CreateTaskOutcome(title, description, priority, assignee, dueDate, tags, dependencies) ==
    LET nextID == nextTaskID
        allTasks == tasks
        depErr == validateDependencies(dependencies, allTasks)
        task == [id |-> nextID, title |-> title, description |-> description,
                 status |-> initialStatus(dependencies, allTasks), priority |-> priority,
                 assignee |-> assignee, createdBy |-> currentUser,
                 createdAt |-> now, updatedAt |-> now, dueDate |-> dueDate,
                 tags |-> tags, dependencies |-> dependencies]
        r == RepoCreateTask(tasks, userTasks, nextTaskID, task)
        state == GetSystemState(r.tasks, r.userTasks, r.nextTaskID + 1, currentUser, clock,
                                sessions, now)
    IN  IF currentUser = NULL THEN Rejected("authentication required")
        ELSE IF nextID > MaxTasks THEN Rejected("maximum number of tasks reached")
        ELSE IF depErr # "nil" THEN Rejected(depErr)
        ELSE IF checkCyclicDependencies(nextID, dependencies, allTasks) # "nil"
             THEN Rejected("cyclic dependency detected")
        ELSE IF Validate(task) # "nil" THEN Rejected("task validation failed")
        ELSE IF r.err # "nil" THEN Rejected("failed to create task")
        ELSE IF CheckAllInvariants(state) # "nil"
             THEN Outcome("invariant violation after task creation", NULL, r.tasks, r.userTasks,
                          r.nextTaskID + 1, currentUser, sessions)
        ELSE Outcome("nil", task, r.tasks, r.userTasks, r.nextTaskID + 1, currentUser, sessions)

CreateTask(title, description, priority, assignee, dueDate, tags, dependencies) ==
    LET r == CreateTaskOutcome(title, description, priority, assignee, dueDate, tags, dependencies)
    IN  /\ Return(r)

\* the loop `for _, id := range userTasks` of UpdateTaskStatus
hasTask(ut, userID, taskID) == taskID \in ut[userID]

\* the dependency loop of UpdateTaskStatus with a fault: nothing is checked
dependenciesNotChecked(task, allTasks) == TRUE

\* the dependency loop of UpdateTaskStatus for newStatus = in_progress
dependenciesCompleted(task, allTasks) ==
    \A depID \in task.dependencies :
        depID \in DOMAIN allTasks => allTasks[depID].status = StatusCompleted

\* UpdateTaskStatus with a fault: the tasks that the new status releases are
\* set to pending in the same call
UpdateTaskStatusOutcomeReleasing(taskID, newStatus) ==
    LET task == tasks[taskID]
        r == RepoUpdateTask(tasks, userTasks, [task EXCEPT !.status = newStatus, !.updatedAt = now])
        released == [i \in DOMAIN r.tasks |->
                        IF ShouldUnblock(r.tasks[i], r.tasks)
                        THEN [r.tasks[i] EXCEPT !.status = StatusPending, !.updatedAt = now]
                        ELSE r.tasks[i]]
    IN  IF currentUser = NULL THEN Rejected("authentication required")
        ELSE IF taskID \notin DOMAIN tasks THEN Rejected("task not found")
        ELSE IF ~hasTask(userTasks, currentUser, taskID)
             THEN Rejected("user does not have access to task")
        ELSE IF ~IsValidTransition(task.status, newStatus) THEN Rejected("invalid transition")
        ELSE IF newStatus = StatusInProgress /\ ~dependenciesCompleted(task, tasks)
             THEN Rejected("cannot start task: dependency is not completed")
        ELSE Outcome("nil", NULL, released, r.userTasks, nextTaskID, currentUser, sessions)

UpdateTaskStatusOutcome(taskID, newStatus) ==
    LET task == tasks[taskID]
        r == RepoUpdateTask(tasks, userTasks, [task EXCEPT !.status = newStatus, !.updatedAt = now])
        state == GetSystemState(r.tasks, r.userTasks, nextTaskID, currentUser, clock, sessions, now)
    IN  IF currentUser = NULL THEN Rejected("authentication required")
        ELSE IF taskID \notin DOMAIN tasks THEN Rejected("task not found")
        ELSE IF ~hasTask(userTasks, currentUser, taskID)
             THEN Rejected("user does not have access to task")
        ELSE IF ~IsValidTransition(task.status, newStatus) THEN Rejected("invalid transition")
        ELSE IF newStatus = StatusInProgress /\ ~dependenciesCompleted(task, tasks)
             THEN Rejected("cannot start task: dependency is not completed")
        ELSE Outcome(IF CheckAllInvariants(state) # "nil" THEN "invariant violation" ELSE "nil",
                     NULL, r.tasks, r.userTasks, nextTaskID, currentUser, sessions)

UpdateTaskStatus(taskID, newStatus) ==
    LET r == UpdateTaskStatusOutcome(taskID, newStatus)
    IN  /\ Return(r)

UpdateTaskPriorityOutcome(taskID, newPriority) ==
    LET task == tasks[taskID]
        r == RepoUpdateTask(tasks, userTasks,
                            [task EXCEPT !.priority = newPriority, !.updatedAt = now])
    IN  IF currentUser = NULL THEN Rejected("authentication required")
        ELSE IF taskID \notin DOMAIN tasks THEN Rejected("task not found")
        ELSE IF task.assignee # currentUser THEN Rejected("user does not have access to task")
        ELSE Outcome("nil", NULL, r.tasks, r.userTasks, nextTaskID, currentUser, sessions)

UpdateTaskPriority(taskID, newPriority) ==
    LET r == UpdateTaskPriorityOutcome(taskID, newPriority)
    IN  /\ Return(r)

\* ReassignTask with a fault: the current user is not looked at first
ReassignTaskOutcomeAnonymous(taskID, newAssignee) ==
    LET task == tasks[taskID]
        oldAssignee == task.assignee
        r == RepoUpdateTask(tasks, userTasks,
                            [task EXCEPT !.assignee = newAssignee, !.updatedAt = now])
    IN  IF taskID \notin DOMAIN tasks THEN Rejected("task not found")
        ELSE IF task.assignee # currentUser /\ task.createdBy # currentUser
             THEN Rejected("user does not have permission to reassign task")
        ELSE IF newAssignee \notin Users THEN Rejected("new assignee not found")
        ELSE Outcome("nil", NULL, r.tasks,
                     AddUserTask(RemoveUserTask(r.userTasks, oldAssignee, taskID),
                                 newAssignee, taskID),
                     nextTaskID, currentUser, sessions)

ReassignTaskOutcome(taskID, newAssignee) ==
    LET task == tasks[taskID]
        oldAssignee == task.assignee
        r == RepoUpdateTask(tasks, userTasks,
                            [task EXCEPT !.assignee = newAssignee, !.updatedAt = now])
    IN  IF currentUser = NULL THEN Rejected("authentication required")
        ELSE IF taskID \notin DOMAIN tasks THEN Rejected("task not found")
        ELSE IF task.assignee # currentUser /\ task.createdBy # currentUser
             THEN Rejected("user does not have permission to reassign task")
        ELSE IF newAssignee \notin Users THEN Rejected("new assignee not found")
        ELSE Outcome("nil", NULL, r.tasks,
                     AddUserTask(RemoveUserTask(r.userTasks, oldAssignee, taskID),
                                 newAssignee, taskID),
                     nextTaskID, currentUser, sessions)

ReassignTask(taskID, newAssignee) ==
    LET r == ReassignTaskOutcome(taskID, newAssignee)
    IN  /\ Return(r)

UpdateTaskDetailsOutcome(taskID, title, description, dueDate) ==
    LET task == tasks[taskID]
        updated == [task EXCEPT !.title = title, !.description = description,
                                !.dueDate = dueDate, !.updatedAt = now]
        r == RepoUpdateTask(tasks, userTasks, updated)
    IN  IF currentUser = NULL THEN Rejected("authentication required")
        ELSE IF taskID \notin DOMAIN tasks THEN Rejected("task not found")
        ELSE IF task.assignee # currentUser THEN Rejected("user does not have access to task")
        ELSE IF Validate(updated) # "nil" THEN Rejected("task validation failed")
        ELSE Outcome("nil", NULL, r.tasks, r.userTasks, nextTaskID, currentUser, sessions)

UpdateTaskDetails(taskID, title, description, dueDate) ==
    LET r == UpdateTaskDetailsOutcome(taskID, title, description, dueDate)
    IN  /\ Return(r)

DeleteTaskOutcome(taskID) ==
    LET task == tasks[taskID]
        r == RepoDeleteTask(tasks, userTasks, taskID)
    IN  IF currentUser = NULL THEN Rejected("authentication required")
        ELSE IF taskID \notin DOMAIN tasks THEN Rejected("task not found")
        ELSE IF task.assignee # currentUser
             THEN Rejected("user does not have permission to delete task")
        ELSE IF ~CanDelete(task) THEN Rejected("can only delete completed or cancelled tasks")
        ELSE IF GetTasksByDependency(tasks, taskID) # {}
             THEN Rejected("cannot delete task: tasks depend on it")
        ELSE Outcome("nil", NULL, r.tasks, r.userTasks, nextTaskID, currentUser, sessions)

DeleteTask(taskID) ==
    LET r == DeleteTaskOutcome(taskID)
    IN  /\ Return(r)

\* the tasks CheckDependencies unblocks: both lists are read before the loop,
\* so every decision is taken on the statuses as they were at the start
unblockable(ts) == {i \in GetTasksByStatus(ts, StatusBlocked) : ShouldUnblock(ts[i], ts)}

\* the loop of CheckDependencies over the tasks ts at time t: the number of
\* tasks unblocked and the tasks afterwards
checkDependenciesLoop(ts, t) ==
    LET unblocked == unblockable(ts)
    IN  [unblockedCount |-> Cardinality(unblocked),
         tasks |-> [i \in DOMAIN ts |->
                       IF i \in unblocked
                       THEN [ts[i] EXCEPT !.status = StatusPending, !.updatedAt = t]
                       ELSE ts[i]]]

\* (ret is unblockedCount)
CheckDependenciesOutcome ==
    LET loop == checkDependenciesLoop(tasks, now)
    IN  Outcome("nil", loop.unblockedCount, loop.tasks, userTasks, nextTaskID, currentUser,
                sessions)

CheckDependencies ==
    LET r == CheckDependenciesOutcome
    IN  /\ Return(r)

\* the validation loop of BulkUpdateStatus with a fault: the assignee is not compared
bulkCheckAssigneeUnchecked(ts, cu, taskID, newStatus) ==
    IF taskID \notin DOMAIN ts THEN "task not found"
    ELSE IF ~IsValidTransition(ts[taskID].status, newStatus) THEN "invalid transition for task"
    ELSE "nil"

\* the validation loop of BulkUpdateStatus for one id: "nil" or its first failing check
bulkCheck(ts, cu, taskID, newStatus) ==
    IF taskID \notin DOMAIN ts THEN "task not found"
    ELSE IF ts[taskID].assignee # cu THEN "user does not have access to task"
    ELSE IF ~IsValidTransition(ts[taskID].status, newStatus) THEN "invalid transition for task"
    ELSE "nil"

\* (the id list is modelled as a set, checked in increasing order)
BulkUpdateStatusOutcome(taskIDs, newStatus) ==
    LET bad == {i \in taskIDs : bulkCheck(tasks, currentUser, i, newStatus) # "nil"}
        ts2 == RepoBulkUpdateStatus(tasks, taskIDs, newStatus, now)
        state == GetSystemState(ts2, userTasks, nextTaskID, currentUser, clock, sessions, now)
    IN  IF currentUser = NULL THEN Rejected("authentication required")
        ELSE IF bad # {}
             THEN Rejected(bulkCheck(tasks, currentUser,
                                     CHOOSE x \in bad : \A y \in bad : x <= y, newStatus))
        ELSE Outcome(IF CheckAllInvariants(state) # "nil"
                     THEN "invariant violation after bulk update" ELSE "nil",
                     NULL, ts2, userTasks, nextTaskID, currentUser, sessions)

BulkUpdateStatus(taskIDs, newStatus) ==
    LET r == BulkUpdateStatusOutcome(taskIDs, newStatus)
    IN  /\ Return(r)

\* ---------------------------------------------------------------------------
\* Concurrent callers.  The use cases take no lock of their own: only each
\* repository method locks the store for its own body.  A call in flight is
\* therefore a sequence of steps, one per repository method it calls, and the
\* steps of concurrent calls interleave.  calls[c] is the call of caller c:
\* op and args, pc (the next repository access; 0 when the call has
\* returned), loc (the local variables of the use case), and, once returned,
\* err and ret.  wrote tells that the call has written to the store; Rollback
\* is empty and never takes a write back.
\* ---------------------------------------------------------------------------
Callers == 1..MaxCallers

NoCall ==
    [op |-> "none", pc |-> 0, n |-> 0, args |-> <<>>, loc |-> <<>>, err |-> "nil",
     ret |-> NULL, wrote |-> FALSE]

\* caller c enters the use case op with the arguments args
NewCall(c, op, args) ==
    [op |-> op, pc |-> 1, n |-> calls[c].n + 1, args |-> args, loc |-> <<>>, err |-> "nil",
     ret |-> NULL, wrote |-> FALSE]

\* the call and the store after one step of a call
Stepped(k, ts, ut, nid, cu, sess) ==
    [call |-> k, tasks |-> ts, userTasks |-> ut, nextTaskID |-> nid, currentUser |-> cu,
     sessions |-> sess]

\* a step that only reads the store and goes on at pc with the locals loc
Continue(k, pc, loc) ==
    Stepped([k EXCEPT !.pc = pc, !.loc = loc], tasks, userTasks, nextTaskID, currentUser,
            sessions)

\* a return statement: the locals are gone, the store stays as the call's
\* steps have left it
ReturnNow(k, err, ret) ==
    Stepped([k EXCEPT !.pc = 0, !.loc = <<>>, !.err = err, !.ret = ret],
            tasks, userTasks, nextTaskID, currentUser, sessions)

\* the step r of caller c takes effect
Take(c, r) ==
    /\ calls' = [calls EXCEPT ![c] = r.call]
    /\ tasks' = r.tasks
    /\ userTasks' = r.userTasks
    /\ nextTaskID' = r.nextTaskID
    /\ currentUser' = r.currentUser
    /\ sessions' = r.sessions
    /\ UNCHANGED <<clock, now>>

\* caller c may enter a use case
CanCall(c) == calls[c].pc = 0 /\ calls[c].n < MaxCallsPerCaller

\* the concurrent callers have not started yet
NoCallYet == \A c \in Callers : calls[c].n = 0

\* ReassignTask, step by step: GetCurrentUser; GetTask, the permission check
\* and GetUser; UpdateTask; RemoveUserTask; AddUserTask
ReassignTaskSteps(k) ==
    LET taskID == k.args.taskID
        newAssignee == k.args.newAssignee
    IN  CASE k.pc = 1 ->
                 IF currentUser = NULL THEN {ReturnNow(k, "authentication required", NULL)}
                 ELSE {Continue(k, 2, [currentUser |-> currentUser])}
          [] k.pc = 2 ->
                 IF taskID \notin DOMAIN tasks THEN {ReturnNow(k, "task not found", NULL)}
                 ELSE IF tasks[taskID].assignee # k.loc.currentUser
                         /\ tasks[taskID].createdBy # k.loc.currentUser
                      THEN {ReturnNow(k, "user does not have permission to reassign task", NULL)}
                 ELSE IF newAssignee \notin Users
                      THEN {ReturnNow(k, "new assignee not found", NULL)}
                 ELSE {Continue(k, 3, [oldAssignee |-> tasks[taskID].assignee,
                                       task |-> [tasks[taskID] EXCEPT !.assignee = newAssignee,
                                                                      !.updatedAt = now]])}
          [] k.pc = 3 ->
                 LET r == RepoUpdateTask(tasks, userTasks, k.loc.task)
                 IN  IF r.err # "nil" THEN {ReturnNow(k, "failed to reassign task", NULL)}
                     ELSE {Stepped([k EXCEPT !.pc = 4, !.wrote = TRUE], r.tasks, r.userTasks,
                                   nextTaskID, currentUser, sessions)}
          [] k.pc = 4 ->
                 {Stepped([k EXCEPT !.pc = 5, !.wrote = TRUE], tasks,
                          RemoveUserTask(userTasks, k.loc.oldAssignee, taskID),
                          nextTaskID, currentUser, sessions)}
          [] OTHER ->
                 {Stepped([k EXCEPT !.pc = 0, !.loc = <<>>, !.wrote = TRUE], tasks,
                          AddUserTask(userTasks, newAssignee, taskID),
                          nextTaskID, currentUser, sessions)}

ReassignTaskCall(c, taskID, newAssignee) ==
    /\ CanCall(c)
    /\ \E r \in ReassignTaskSteps(NewCall(c, "ReassignTask",
                                           [taskID |-> taskID, newAssignee |-> newAssignee])) :
           Take(c, r)

\* the snapshot a call takes of the store and hands to the invariant checker
SnapshotCheck == CheckAllInvariants(Snapshot)

\* UpdateTaskStatus, step by step: GetCurrentUser; GetTask; GetUserTasks and
\* the transition check; GetAllTasks and the dependency loop (for in_progress
\* only); UpdateTask; GetSystemState and CheckAllInvariants
UpdateTaskStatusSteps(k) ==
    LET taskID == k.args.taskID
        newStatus == k.args.newStatus
        updated(task) == [task EXCEPT !.status = newStatus, !.updatedAt = now]
    IN  CASE k.pc = 1 ->
                 IF currentUser = NULL THEN {ReturnNow(k, "authentication required", NULL)}
                 ELSE {Continue(k, 2, [currentUser |-> currentUser])}
          [] k.pc = 2 ->
                 IF taskID \notin DOMAIN tasks THEN {ReturnNow(k, "task not found", NULL)}
                 ELSE {Continue(k, 3, [currentUser |-> k.loc.currentUser,
                                       task |-> tasks[taskID]])}
          [] k.pc = 3 ->
                 IF ~hasTask(userTasks, k.loc.currentUser, taskID)
                 THEN {ReturnNow(k, "user does not have access to task", NULL)}
                 ELSE IF ~IsValidTransition(k.loc.task.status, newStatus)
                      THEN {ReturnNow(k, "invalid transition", NULL)}
                 ELSE IF newStatus = StatusInProgress
                      THEN {Continue(k, 4, [task |-> k.loc.task])}
                 ELSE {Continue(k, 5, [task |-> updated(k.loc.task)])}
          [] k.pc = 4 ->
                 IF ~dependenciesCompleted(k.loc.task, tasks)
                 THEN {ReturnNow(k, "cannot start task: dependency is not completed", NULL)}
                 ELSE {Continue(k, 5, [task |-> updated(k.loc.task)])}
          [] k.pc = 5 ->
                 LET r == RepoUpdateTask(tasks, userTasks, k.loc.task)
                 IN  IF r.err # "nil" THEN {ReturnNow(k, "failed to update task", NULL)}
                     ELSE {Stepped([k EXCEPT !.pc = 6, !.loc = <<>>, !.wrote = TRUE],
                                   r.tasks, r.userTasks, nextTaskID, currentUser, sessions)}
          [] OTHER ->
                 {ReturnNow(k, IF SnapshotCheck # "nil" THEN "invariant violation" ELSE "nil",
                            NULL)}

UpdateTaskStatusCall(c, taskID, newStatus) ==
    /\ CanCall(c)
    /\ \E r \in UpdateTaskStatusSteps(NewCall(c, "UpdateTaskStatus",
                                               [taskID |-> taskID, newStatus |-> newStatus])) :
           Take(c, r)

\* UpdateTaskPriority, step by step: GetCurrentUser; GetTask and the assignee
\* check; UpdateTask
UpdateTaskPrioritySteps(k) ==
    LET taskID == k.args.taskID
    IN  CASE k.pc = 1 ->
                 IF currentUser = NULL THEN {ReturnNow(k, "authentication required", NULL)}
                 ELSE {Continue(k, 2, [currentUser |-> currentUser])}
          [] k.pc = 2 ->
                 IF taskID \notin DOMAIN tasks THEN {ReturnNow(k, "task not found", NULL)}
                 ELSE IF tasks[taskID].assignee # k.loc.currentUser
                      THEN {ReturnNow(k, "user does not have access to task", NULL)}
                 ELSE {Continue(k, 3, [task |-> [tasks[taskID] EXCEPT
                                                    !.priority = k.args.newPriority,
                                                    !.updatedAt = now]])}
          [] OTHER ->
                 LET r == RepoUpdateTask(tasks, userTasks, k.loc.task)
                 IN  IF r.err # "nil"
                     THEN {ReturnNow(k, "failed to update task priority", NULL)}
                     ELSE {Stepped([k EXCEPT !.pc = 0, !.loc = <<>>, !.wrote = TRUE],
                                   r.tasks, r.userTasks, nextTaskID, currentUser, sessions)}

UpdateTaskPriorityCall(c, taskID, newPriority) ==
    /\ CanCall(c)
    /\ \E r \in UpdateTaskPrioritySteps(NewCall(c, "UpdateTaskPriority",
                                                 [taskID |-> taskID,
                                                  newPriority |-> newPriority])) :
           Take(c, r)

\* UpdateTaskDetails, step by step: GetCurrentUser; GetTask, the assignee check
\* and Validate; UpdateTask
UpdateTaskDetailsSteps(k) ==
    LET taskID == k.args.taskID
        updated(task) == [task EXCEPT !.title = k.args.title,
                                      !.description = k.args.description,
                                      !.dueDate = k.args.dueDate, !.updatedAt = now]
    IN  CASE k.pc = 1 ->
                 IF currentUser = NULL THEN {ReturnNow(k, "authentication required", NULL)}
                 ELSE {Continue(k, 2, [currentUser |-> currentUser])}
          [] k.pc = 2 ->
                 IF taskID \notin DOMAIN tasks THEN {ReturnNow(k, "task not found", NULL)}
                 ELSE IF tasks[taskID].assignee # k.loc.currentUser
                      THEN {ReturnNow(k, "user does not have access to task", NULL)}
                 ELSE IF Validate(updated(tasks[taskID])) # "nil"
                      THEN {ReturnNow(k, "task validation failed", NULL)}
                 ELSE {Continue(k, 3, [task |-> updated(tasks[taskID])])}
          [] OTHER ->
                 LET r == RepoUpdateTask(tasks, userTasks, k.loc.task)
                 IN  IF r.err # "nil"
                     THEN {ReturnNow(k, "failed to update task details", NULL)}
                     ELSE {Stepped([k EXCEPT !.pc = 0, !.loc = <<>>, !.wrote = TRUE],
                                   r.tasks, r.userTasks, nextTaskID, currentUser, sessions)}

UpdateTaskDetailsCall(c, taskID, title, description, dueDate) ==
    /\ CanCall(c)
    /\ \E r \in UpdateTaskDetailsSteps(NewCall(c, "UpdateTaskDetails",
                                                [taskID |-> taskID, title |-> title,
                                                 description |-> description,
                                                 dueDate |-> dueDate])) :
           Take(c, r)

\* CheckDependencies, step by step: GetTasksByStatus; GetAllTasks and the
\* ShouldUnblock tests; one UpdateTask for each task to unblock (the list comes
\* out of a map iteration, so its order is any order)
CheckDependenciesSteps(k) ==
    CASE k.pc = 1 ->
             {Continue(k, 2, [blockedTasks |->
                                 [i \in GetTasksByStatus(tasks, StatusBlocked) |-> tasks[i]]])}
      [] k.pc = 2 ->
             LET todo == {i \in DOMAIN k.loc.blockedTasks :
                             ShouldUnblock(k.loc.blockedTasks[i], tasks)}
             IN  IF todo = {} THEN {ReturnNow(k, "nil", 0)}
                 ELSE {Continue(k, 3, [blockedTasks |-> k.loc.blockedTasks, todo |-> todo,
                                       unblockedCount |-> 0])}
      [] OTHER ->
             { LET task == [k.loc.blockedTasks[i] EXCEPT !.status = StatusPending,
                                                         !.updatedAt = now]
                   r == RepoUpdateTask(tasks, userTasks, task)
                   count == k.loc.unblockedCount + 1
               IN  IF r.err # "nil"
                   THEN ReturnNow(k, "failed to unblock task", k.loc.unblockedCount)
                   ELSE IF k.loc.todo = {i}
                        THEN Stepped([k EXCEPT !.pc = 0, !.loc = <<>>, !.ret = count,
                                               !.wrote = TRUE],
                                     r.tasks, r.userTasks, nextTaskID, currentUser, sessions)
                   ELSE Stepped([k EXCEPT !.loc.todo = @ \ {i}, !.loc.unblockedCount = count,
                                          !.wrote = TRUE],
                                r.tasks, r.userTasks, nextTaskID, currentUser, sessions)
               : i \in k.loc.todo }

CheckDependenciesCall(c) ==
    /\ CanCall(c)
    /\ \E r \in CheckDependenciesSteps(NewCall(c, "CheckDependencies", <<>>)) : Take(c, r)

\* BulkUpdateStatus, step by step: GetCurrentUser; one GetTask with its checks
\* for each id of the list (taken in increasing order); the repository's
\* BulkUpdateStatus; GetSystemState and CheckAllInvariants
BulkUpdateStatusSteps(k) ==
    LET taskIDs == k.args.taskIDs
        newStatus == k.args.newStatus
    IN  CASE k.pc = 1 ->
                 IF currentUser = NULL THEN {ReturnNow(k, "authentication required", NULL)}
                 ELSE {Continue(k, IF taskIDs = {} THEN 3 ELSE 2,
                                [currentUser |-> currentUser, todo |-> taskIDs])}
          [] k.pc = 2 ->
                 LET taskID == CHOOSE x \in k.loc.todo : \A y \in k.loc.todo : x <= y
                     e == bulkCheck(tasks, k.loc.currentUser, taskID, newStatus)
                 IN  IF e # "nil" THEN {ReturnNow(k, e, NULL)}
                     ELSE {Continue(k, IF k.loc.todo = {taskID} THEN 3 ELSE 2,
                                    [currentUser |-> k.loc.currentUser,
                                     todo |-> k.loc.todo \ {taskID}])}
          [] k.pc = 3 ->
                 {Stepped([k EXCEPT !.pc = 4, !.loc = <<>>,
                                    !.wrote = (taskIDs \cap DOMAIN tasks # {})],
                          RepoBulkUpdateStatus(tasks, taskIDs, newStatus, now),
                          userTasks, nextTaskID, currentUser, sessions)}
          [] OTHER ->
                 {ReturnNow(k, IF SnapshotCheck # "nil"
                               THEN "invariant violation after bulk update" ELSE "nil", NULL)}

BulkUpdateStatusCall(c, taskIDs, newStatus) ==
    /\ CanCall(c)
    /\ \E r \in BulkUpdateStatusSteps(NewCall(c, "BulkUpdateStatus",
                                               [taskIDs |-> taskIDs, newStatus |-> newStatus])) :
           Take(c, r)

\* Authenticate, step by step: GetUser and GetSessionByUser; CreateSession
\* (the random token is one no session has); SetCurrentUser; GetSystemState
\* and CheckAllInvariants
AuthenticateSteps(k) ==
    LET userID == k.args.userID
    IN  CASE k.pc = 1 ->
                 IF userID \notin Users THEN {ReturnNow(k, "user not found", NULL)}
                 ELSE IF GetSessionByUser(sessions, userID, now) # {}
                      THEN {ReturnNow(k, "user already has an active session", NULL)}
                 ELSE {Continue(k, 2, [createdAt |-> now])}
          [] k.pc = 2 ->
                 LET session == [userID |-> userID, token |-> generateToken(sessions),
                                 active |-> TRUE, createdAt |-> k.loc.createdAt,
                                 expiresAt |-> k.loc.createdAt + SessionTTL]
                 IN  {Stepped([k EXCEPT !.pc = 3, !.loc = <<>>, !.ret = session.token,
                                        !.wrote = TRUE],
                              tasks, userTasks, nextTaskID, currentUser,
                              RepoCreateSession(sessions, session))}
          [] k.pc = 3 ->
                 {Stepped([k EXCEPT !.pc = 4], tasks, userTasks, nextTaskID, userID, sessions)}
          [] OTHER ->
                 {IF SnapshotCheck # "nil" THEN ReturnNow(k, "invariant violation", NULL)
                  ELSE ReturnNow(k, "nil", k.ret)}

\* (the session table of the model holds at most MaxSessions sessions)
AuthenticateCall(c, userID) ==
    /\ CanCall(c)
    /\ Cardinality(DOMAIN sessions)
           + Cardinality({d \in Callers : calls[d].op = "Authenticate" /\ calls[d].pc = 2})
         < MaxSessions
    /\ \E r \in AuthenticateSteps(NewCall(c, "Authenticate", [userID |-> userID])) : Take(c, r)

\* Logout, step by step: GetCurrentUser; GetSessionByUser (any valid session
\* of the user); UpdateSession with the deactivated copy; SetCurrentUser(nil)
LogoutSteps(k) ==
    LET userID == k.args.userID
    IN  CASE k.pc = 1 ->
                 IF currentUser = NULL
                 THEN {ReturnNow(k, "no user currently authenticated", NULL)}
                 ELSE IF currentUser # userID
                      THEN {ReturnNow(k, "user is not the current user", NULL)}
                 ELSE {Continue(k, 2, <<>>)}
          [] k.pc = 2 ->
                 LET found == GetSessionByUser(sessions, userID, now)
                 IN  IF found = {} THEN {Continue(k, 4, <<>>)}
                     ELSE {Continue(k, 3, [session |-> [sessions[tok] EXCEPT !.active = FALSE]])
                           : tok \in found}
          [] k.pc = 3 ->
                 {Stepped([k EXCEPT !.pc = 4, !.loc = <<>>, !.wrote = TRUE],
                          tasks, userTasks, nextTaskID, currentUser,
                          IF k.loc.session.token \in DOMAIN sessions
                          THEN [sessions EXCEPT ![k.loc.session.token] = k.loc.session]
                          ELSE sessions)}
          [] OTHER ->
                 {Stepped([k EXCEPT !.pc = 0, !.loc = <<>>, !.wrote = TRUE],
                          tasks, userTasks, nextTaskID, NULL, sessions)}

LogoutCall(c, userID) ==
    /\ CanCall(c)
    /\ \E r \in LogoutSteps(NewCall(c, "Logout", [userID |-> userID])) : Take(c, r)

\* CreateTask, step by step, with a fault: IncrementNextTaskID leaves the counter
CreateTaskStepsCounterKept(k) ==
    LET dependencies == k.args.dependencies
    IN  CASE k.pc = 1 ->
                 IF currentUser = NULL THEN {ReturnNow(k, "authentication required", NULL)}
                 ELSE {Continue(k, 2, [currentUser |-> currentUser])}
          [] k.pc = 2 ->
                 IF nextTaskID > MaxTasks
                 THEN {ReturnNow(k, "maximum number of tasks reached", NULL)}
                 ELSE {Continue(k, 3, [currentUser |-> k.loc.currentUser,
                                       nextID |-> nextTaskID])}
          [] k.pc = 3 ->
                 LET nextID == k.loc.nextID
                     allTasks == tasks
                     depErr == validateDependencies(dependencies, allTasks)
                     task == [id |-> nextID, title |-> k.args.title,
                              description |-> k.args.description,
                              status |-> initialStatus(dependencies, allTasks),
                              priority |-> k.args.priority, assignee |-> k.args.assignee,
                              createdBy |-> k.loc.currentUser,
                              createdAt |-> now, updatedAt |-> now,
                              dueDate |-> k.args.dueDate, tags |-> k.args.tags,
                              dependencies |-> dependencies]
                 IN  IF depErr # "nil" THEN {ReturnNow(k, depErr, NULL)}
                     ELSE IF checkCyclicDependencies(nextID, dependencies, allTasks) # "nil"
                          THEN {ReturnNow(k, "cyclic dependency detected", NULL)}
                     ELSE IF Validate(task) # "nil"
                          THEN {ReturnNow(k, "task validation failed", NULL)}
                     ELSE {Continue(k, 4, [task |-> task])}
          [] k.pc = 4 ->
                 LET r == RepoCreateTask(tasks, userTasks, nextTaskID, k.loc.task)
                 IN  IF r.err # "nil" THEN {ReturnNow(k, "failed to create task", NULL)}
                     ELSE {Stepped([k EXCEPT !.pc = 5, !.loc = <<>>, !.ret = k.loc.task.id,
                                            !.wrote = TRUE],
                                   r.tasks, r.userTasks, r.nextTaskID, currentUser, sessions)}
          [] k.pc = 5 ->
                 {Stepped([k EXCEPT !.pc = 6], tasks, userTasks, nextTaskID, currentUser,
                          sessions)}
          [] OTHER ->
                 {IF SnapshotCheck # "nil"
                  THEN ReturnNow(k, "invariant violation after task creation", NULL)
                  ELSE ReturnNow(k, "nil", k.ret)}

\* CreateTask, step by step: GetCurrentUser; GetNextTaskID; GetAllTasks with
\* the dependency checks, the initial status and Validate; the repository's
\* CreateTask; IncrementNextTaskID; GetSystemState and CheckAllInvariants
CreateTaskSteps(k) ==
    LET dependencies == k.args.dependencies
    IN  CASE k.pc = 1 ->
                 IF currentUser = NULL THEN {ReturnNow(k, "authentication required", NULL)}
                 ELSE {Continue(k, 2, [currentUser |-> currentUser])}
          [] k.pc = 2 ->
                 IF nextTaskID > MaxTasks
                 THEN {ReturnNow(k, "maximum number of tasks reached", NULL)}
                 ELSE {Continue(k, 3, [currentUser |-> k.loc.currentUser,
                                       nextID |-> nextTaskID])}
          [] k.pc = 3 ->
                 LET nextID == k.loc.nextID
                     allTasks == tasks
                     depErr == validateDependencies(dependencies, allTasks)
                     task == [id |-> nextID, title |-> k.args.title,
                              description |-> k.args.description,
                              status |-> initialStatus(dependencies, allTasks),
                              priority |-> k.args.priority, assignee |-> k.args.assignee,
                              createdBy |-> k.loc.currentUser,
                              createdAt |-> now, updatedAt |-> now,
                              dueDate |-> k.args.dueDate, tags |-> k.args.tags,
                              dependencies |-> dependencies]
                 IN  IF depErr # "nil" THEN {ReturnNow(k, depErr, NULL)}
                     ELSE IF checkCyclicDependencies(nextID, dependencies, allTasks) # "nil"
                          THEN {ReturnNow(k, "cyclic dependency detected", NULL)}
                     ELSE IF Validate(task) # "nil"
                          THEN {ReturnNow(k, "task validation failed", NULL)}
                     ELSE {Continue(k, 4, [task |-> task])}
          [] k.pc = 4 ->
                 LET r == RepoCreateTask(tasks, userTasks, nextTaskID, k.loc.task)
                 IN  IF r.err # "nil" THEN {ReturnNow(k, "failed to create task", NULL)}
                     ELSE {Stepped([k EXCEPT !.pc = 5, !.loc = <<>>, !.ret = k.loc.task.id,
                                            !.wrote = TRUE],
                                   r.tasks, r.userTasks, r.nextTaskID, currentUser, sessions)}
          [] k.pc = 5 ->
                 {Stepped([k EXCEPT !.pc = 6], tasks, userTasks, nextTaskID + 1, currentUser,
                          sessions)}
          [] OTHER ->
                 {IF SnapshotCheck # "nil"
                  THEN ReturnNow(k, "invariant violation after task creation", NULL)
                  ELSE ReturnNow(k, "nil", k.ret)}

CreateTaskCall(c, title, description, priority, assignee, dueDate, tags, dependencies) ==
    /\ CanCall(c)
    /\ \E r \in CreateTaskSteps(NewCall(c, "CreateTask",
                                        [title |-> title, description |-> description,
                                         priority |-> priority, assignee |-> assignee,
                                         dueDate |-> dueDate, tags |-> tags,
                                         dependencies |-> dependencies])) :
           Take(c, r)

\* DeleteTask, step by step: GetCurrentUser; GetTask with the assignee and
\* CanDelete checks; GetTasksByDependency; the repository's DeleteTask
DeleteTaskSteps(k) ==
    LET taskID == k.args.taskID
    IN  CASE k.pc = 1 ->
                 IF currentUser = NULL THEN {ReturnNow(k, "authentication required", NULL)}
                 ELSE {Continue(k, 2, [currentUser |-> currentUser])}
          [] k.pc = 2 ->
                 IF taskID \notin DOMAIN tasks THEN {ReturnNow(k, "task not found", NULL)}
                 ELSE IF tasks[taskID].assignee # k.loc.currentUser
                      THEN {ReturnNow(k, "user does not have permission to delete task", NULL)}
                 ELSE IF ~CanDelete(tasks[taskID])
                      THEN {ReturnNow(k, "can only delete completed or cancelled tasks", NULL)}
                 ELSE {Continue(k, 3, <<>>)}
          [] k.pc = 3 ->
                 IF GetTasksByDependency(tasks, taskID) # {}
                 THEN {ReturnNow(k, "cannot delete task: tasks depend on it", NULL)}
                 ELSE {Continue(k, 4, <<>>)}
          [] OTHER ->
                 LET r == RepoDeleteTask(tasks, userTasks, taskID)
                 IN  IF r.err # "nil" THEN {ReturnNow(k, "failed to delete task", NULL)}
                     ELSE {Stepped([k EXCEPT !.pc = 0, !.loc = <<>>, !.wrote = TRUE],
                                   r.tasks, r.userTasks, nextTaskID, currentUser, sessions)}

DeleteTaskCall(c, taskID) ==
    /\ CanCall(c)
    /\ \E r \in DeleteTaskSteps(NewCall(c, "DeleteTask", [taskID |-> taskID])) : Take(c, r)

\* the next step of the call k, whatever use case it is in
Steps(k) ==
    CASE k.op = "Authenticate" -> AuthenticateSteps(k)
      [] k.op = "Logout" -> LogoutSteps(k)
      [] k.op = "CreateTask" -> CreateTaskSteps(k)
      [] k.op = "UpdateTaskStatus" -> UpdateTaskStatusSteps(k)
      [] k.op = "UpdateTaskPriority" -> UpdateTaskPrioritySteps(k)
      [] k.op = "ReassignTask" -> ReassignTaskSteps(k)
      [] k.op = "UpdateTaskDetails" -> UpdateTaskDetailsSteps(k)
      [] k.op = "DeleteTask" -> DeleteTaskSteps(k)
      [] k.op = "CheckDependencies" -> CheckDependenciesSteps(k)
      [] OTHER -> BulkUpdateStatusSteps(k)

\* the call of caller c goes on by one repository access
Resume(c) ==
    /\ calls[c].pc > 0
    /\ \E r \in Steps(calls[c]) : Take(c, r)

\* the passage of time between calls
Tick ==
    /\ now < MaxTime
    /\ now' = now + 1
    /\ UNCHANGED <<tasks, userTasks, nextTaskID, currentUser, clock, sessions, calls>>

\* ---------------------------------------------------------------------------
\* NewMemoryRepository, then the users registered at start-up
\* ---------------------------------------------------------------------------
Init ==
    /\ tasks = <<>>
    /\ userTasks = [u \in UserIDs |-> {}]
    /\ nextTaskID = 1
    /\ currentUser = NULL
    /\ clock = 0
    /\ sessions = <<>>
    /\ now = 0
    /\ calls = [c \in Callers |-> NoCall]

\* arguments the callers pass
ArgUsers == UserIDs
ArgTitles == {"Task"}
ArgDescriptions == {"Desc"}
ArgPriorities == {"low"}
ArgAssignees == Users
ArgDueDates == {NULL}
ArgTags == {{"bug"}}
ArgStatuses == TaskStates
ArgTaskIDs == 1..MaxTasks

Next ==
    \/ \E u \in ArgUsers : Authenticate(u)
    \/ \E u \in ArgUsers : Logout(u)
    \/ \E title \in ArgTitles, description \in ArgDescriptions, priority \in ArgPriorities,
          assignee \in ArgAssignees, dueDate \in ArgDueDates, tags \in ArgTags,
          dependencies \in SUBSET ArgTaskIDs :
          CreateTask(title, description, priority, assignee, dueDate, tags, dependencies)
    \/ \E taskID \in ArgTaskIDs, newStatus \in ArgStatuses : UpdateTaskStatus(taskID, newStatus)
    \/ \E taskID \in ArgTaskIDs, newPriority \in ArgPriorities : UpdateTaskPriority(taskID, newPriority)
    \/ \E taskID \in ArgTaskIDs, newAssignee \in ArgUsers : ReassignTask(taskID, newAssignee)
    \/ \E taskID \in ArgTaskIDs, title \in ArgTitles, description \in ArgDescriptions,
          dueDate \in ArgDueDates : UpdateTaskDetails(taskID, title, description, dueDate)
    \/ \E taskID \in ArgTaskIDs : DeleteTask(taskID)
    \/ CheckDependencies
    \/ \E taskIDs \in SUBSET ArgTaskIDs, newStatus \in ArgStatuses : BulkUpdateStatus(taskIDs, newStatus)
    \/ Tick

Spec == Init /\ [][Next]_vars

\* the task operations alone: the users log in and stay logged in, and the
\* calls follow one another within one tick of the clock
NextTasks ==
    \/ \E u \in ArgUsers : Authenticate(u)
    \/ \E title \in ArgTitles, description \in ArgDescriptions, priority \in ArgPriorities,
          assignee \in ArgAssignees, dueDate \in ArgDueDates, tags \in ArgTags,
          dependencies \in SUBSET ArgTaskIDs :
          CreateTask(title, description, priority, assignee, dueDate, tags, dependencies)
    \/ \E taskID \in ArgTaskIDs, newStatus \in ArgStatuses : UpdateTaskStatus(taskID, newStatus)
    \/ \E taskID \in ArgTaskIDs, newPriority \in ArgPriorities : UpdateTaskPriority(taskID, newPriority)
    \/ \E taskID \in ArgTaskIDs, newAssignee \in ArgUsers : ReassignTask(taskID, newAssignee)
    \/ \E taskID \in ArgTaskIDs, title \in ArgTitles, description \in ArgDescriptions,
          dueDate \in ArgDueDates : UpdateTaskDetails(taskID, title, description, dueDate)
    \/ \E taskID \in ArgTaskIDs : DeleteTask(taskID)
    \/ CheckDependencies
    \/ \E taskIDs \in SUBSET ArgTaskIDs, newStatus \in ArgStatuses : BulkUpdateStatus(taskIDs, newStatus)

SpecTasks == Init /\ [][NextTasks]_vars

\* the same calls with a client that keeps posting to /tasks/check-dependencies:
\* a sweep that would release a task is not put off for ever
SpecSweep == Init /\ [][NextTasks]_vars /\ WF_vars(CheckDependencies)

\* concurrent updates of the tasks: users log in and create tasks one call
\* after the other, then the callers run the updating use cases step by step
NextUpdates ==
    \/ NoCallYet /\ \E u \in ArgUsers : Authenticate(u)
    \/ NoCallYet /\ \E title \in ArgTitles, description \in ArgDescriptions,
                   priority \in ArgPriorities, assignee \in ArgAssignees,
                   dueDate \in ArgDueDates, tags \in ArgTags, dependencies \in SUBSET ArgTaskIDs :
                   CreateTask(title, description, priority, assignee, dueDate, tags, dependencies)
    \/ \E c \in Callers, taskID \in ArgTaskIDs, newAssignee \in ArgUsers :
           ReassignTaskCall(c, taskID, newAssignee)
    \/ \E c \in Callers, taskID \in ArgTaskIDs, newStatus \in ArgStatuses :
           UpdateTaskStatusCall(c, taskID, newStatus)
    \/ \E c \in Callers, taskID \in ArgTaskIDs, newPriority \in ArgPriorities :
           UpdateTaskPriorityCall(c, taskID, newPriority)
    \/ \E c \in Callers, taskID \in ArgTaskIDs, title \in ArgTitles,
          description \in ArgDescriptions, dueDate \in ArgDueDates :
           UpdateTaskDetailsCall(c, taskID, title, description, dueDate)
    \/ \E c \in Callers : CheckDependenciesCall(c)
    \/ \E c \in Callers, taskIDs \in SUBSET ArgTaskIDs, newStatus \in ArgStatuses :
           BulkUpdateStatusCall(c, taskIDs, newStatus)
    \/ \E c \in Callers : Resume(c)

SpecUpdates == Init /\ [][NextUpdates]_vars

\* concurrent creation: the users log in one after the other, then the
\* callers run CreateTask step by step against the empty store
NextCreate ==
    \/ NoCallYet /\ \E u \in ArgUsers : Authenticate(u)
    \/ \E c \in Callers, title \in ArgTitles, description \in ArgDescriptions,
          priority \in ArgPriorities, assignee \in ArgAssignees, dueDate \in ArgDueDates,
          tags \in ArgTags, dependencies \in SUBSET ArgTaskIDs :
           CreateTaskCall(c, title, description, priority, assignee, dueDate, tags, dependencies)
    \/ \E c \in Callers : Resume(c)

SpecCreate == Init /\ [][NextCreate]_vars

\* one CreateTask call that runs step by step while other calls (log-in,
\* CreateTask, UpdateTaskStatus, DeleteTask) run to completion between its steps
FirstCaller == CHOOSE c \in Callers : \A d \in Callers : c <= d

NextStalled ==
    \/ \E u \in ArgUsers : Authenticate(u)
    \/ \E title \in ArgTitles, description \in ArgDescriptions, priority \in ArgPriorities,
          assignee \in ArgAssignees, dueDate \in ArgDueDates, tags \in ArgTags,
          dependencies \in SUBSET ArgTaskIDs :
          CreateTask(title, description, priority, assignee, dueDate, tags, dependencies)
    \/ \E taskID \in ArgTaskIDs, newStatus \in ArgStatuses : UpdateTaskStatus(taskID, newStatus)
    \/ \E taskID \in ArgTaskIDs : DeleteTask(taskID)
    \/ \E title \in ArgTitles, description \in ArgDescriptions, priority \in ArgPriorities,
          assignee \in ArgAssignees, dueDate \in ArgDueDates, tags \in ArgTags,
          dependencies \in SUBSET ArgTaskIDs :
          CreateTaskCall(FirstCaller, title, description, priority, assignee, dueDate, tags,
                         dependencies)
    \/ Resume(FirstCaller)

SpecStalled == Init /\ [][NextStalled]_vars

\* concurrent log-in and log-out: the callers run Authenticate and Logout
\* step by step while time passes
NextSessions ==
    \/ \E c \in Callers, u \in ArgUsers : AuthenticateCall(c, u)
    \/ \E c \in Callers, u \in ArgUsers : LogoutCall(c, u)
    \/ \E c \in Callers : Resume(c)
    \/ Tick

SpecSessions == Init /\ [][NextSessions]_vars

\* concurrent deletion and creation: the users log in, create tasks and move
\* them through their statuses one call after the other, then the callers run
\* DeleteTask and CreateTask step by step
NextDelete ==
    \/ NoCallYet /\ \E u \in ArgUsers : Authenticate(u)
    \/ NoCallYet /\ \E title \in ArgTitles, description \in ArgDescriptions,
                       priority \in ArgPriorities, assignee \in ArgAssignees,
                       dueDate \in ArgDueDates, tags \in ArgTags,
                       dependencies \in SUBSET ArgTaskIDs :
                       CreateTask(title, description, priority, assignee, dueDate, tags,
                                  dependencies)
    \/ NoCallYet /\ \E taskID \in ArgTaskIDs, newStatus \in ArgStatuses :
                       UpdateTaskStatus(taskID, newStatus)
    \/ \E c \in Callers, taskID \in ArgTaskIDs : DeleteTaskCall(c, taskID)
    \/ \E c \in Callers, title \in ArgTitles, description \in ArgDescriptions,
          priority \in ArgPriorities, assignee \in ArgAssignees, dueDate \in ArgDueDates,
          tags \in ArgTags, dependencies \in SUBSET ArgTaskIDs :
           CreateTaskCall(c, title, description, priority, assignee, dueDate, tags, dependencies)
    \/ \E c \in Callers : Resume(c)

SpecDelete == Init /\ [][NextDelete]_vars

\* the task operations with every user id as an assignee, registered or not
\* (the other specifications assign tasks to registered users only)
NextAssignees ==
    \/ \E u \in ArgUsers : Authenticate(u)
    \/ \E title \in ArgTitles, description \in ArgDescriptions, priority \in ArgPriorities,
          assignee \in UserIDs, dueDate \in ArgDueDates, tags \in ArgTags,
          dependencies \in SUBSET ArgTaskIDs :
          CreateTask(title, description, priority, assignee, dueDate, tags, dependencies)
    \/ \E taskID \in ArgTaskIDs, newStatus \in ArgStatuses : UpdateTaskStatus(taskID, newStatus)
    \/ \E taskID \in ArgTaskIDs, newAssignee \in UserIDs : ReassignTask(taskID, newAssignee)
    \/ \E taskID \in ArgTaskIDs : DeleteTask(taskID)

SpecAssignees == Init /\ [][NextAssignees]_vars

\* several users at the same time, each in a goroutine of its own: the user
\* calls Authenticate and then CreateTask again and again, assigning the tasks
\* to itself, whatever the calls return
CallerUser(c) == IF c = 1 THEN "alice" ELSE "bob"

UserAuthenticates(c) ==
    /\ calls[c].pc = 0
    /\ calls[c].n = 0
    /\ \E r \in AuthenticateSteps(NewCall(c, "Authenticate", [userID |-> CallerUser(c)])) :
           Take(c, r)

UserCreatesTask(c, title, description, priority, dueDate, tags) ==
    /\ calls[c].pc = 0
    /\ calls[c].n > 0
    /\ calls[c].n < MaxCallsInSequence
    /\ \E r \in CreateTaskSteps(NewCall(c, "CreateTask",
                                        [title |-> title, description |-> description,
                                         priority |-> priority, assignee |-> CallerUser(c),
                                         dueDate |-> dueDate, tags |-> tags,
                                         dependencies |-> {}])) :
           Take(c, r)

NextUsers ==
    \/ \E c \in Callers : UserAuthenticates(c)
    \/ \E c \in Callers, title \in ArgTitles, description \in ArgDescriptions,
          priority \in ArgPriorities, dueDate \in ArgDueDates, tags \in ArgTags :
           UserCreatesTask(c, title, description, priority, dueDate, tags)
    \/ \E c \in Callers : Resume(c)

SpecUsers == Init /\ [][NextUsers]_vars

\* the passage of time up to the moment a session created at the start has
\* expired (time.Now() is after ExpiresAt)
LateTick ==
    /\ now <= SessionTTL
    /\ now' = now + 1
    /\ UNCHANGED <<tasks, userTasks, nextTaskID, currentUser, clock, sessions, calls>>

\* sessions over their whole life: the users log in and out, create tasks and
\* change their status, one call after the other, while time passes beyond
\* the expiry of the sessions
NextExpiry ==
    \/ \E u \in ArgUsers : Authenticate(u)
    \/ \E u \in ArgUsers : Logout(u)
    \/ \E title \in ArgTitles, description \in ArgDescriptions, priority \in ArgPriorities,
          assignee \in ArgAssignees, dueDate \in ArgDueDates, tags \in ArgTags :
          CreateTask(title, description, priority, assignee, dueDate, tags, {})
    \/ \E taskID \in ArgTaskIDs, newStatus \in ArgStatuses : UpdateTaskStatus(taskID, newStatus)
    \/ LateTick

SpecExpiry == Init /\ [][NextExpiry]_vars

\* priority values a caller may pass: Priority is a string type, so any string
\* is an argument; "urgent" is none of the four constants
ArgAnyPriorities == {"low", "high", "urgent"}

\* the operations that write a priority or run Validate, with any priority value
NextPriorities ==
    \/ \E u \in ArgUsers : Authenticate(u)
    \/ \E title \in ArgTitles, description \in ArgDescriptions, priority \in ArgAnyPriorities,
          assignee \in ArgAssignees, dueDate \in ArgDueDates, tags \in ArgTags :
          CreateTask(title, description, priority, assignee, dueDate, tags, {})
    \/ \E taskID \in ArgTaskIDs, newPriority \in ArgAnyPriorities :
          UpdateTaskPriority(taskID, newPriority)
    \/ \E taskID \in ArgTaskIDs, title \in ArgTitles, description \in ArgDescriptions,
          dueDate \in ArgDueDates : UpdateTaskDetails(taskID, title, description, dueDate)

SpecPriorities == Init /\ [][NextPriorities]_vars

\* titles and descriptions a caller may write, the stored ones and new ones
ArgNewTitles == ArgTitles \cup {"Renamed"}

ArgNewDescriptions == ArgDescriptions \cup {"Rewritten"}

\* concurrent updates of different fields of a task: a user logs in and
\* creates tasks, then the callers run UpdateTaskStatus, UpdateTaskPriority,
\* UpdateTaskDetails and ReassignTask step by step, each with a new value
NextFields ==
    \/ NoCallYet /\ \E u \in ArgUsers : Authenticate(u)
    \/ NoCallYet /\ \E title \in ArgTitles, description \in ArgDescriptions,
                   priority \in ArgPriorities, assignee \in ArgAssignees,
                   dueDate \in ArgDueDates, tags \in ArgTags :
                   CreateTask(title, description, priority, assignee, dueDate, tags, {})
    \/ \E c \in Callers, taskID \in ArgTaskIDs, newStatus \in ArgStatuses :
           UpdateTaskStatusCall(c, taskID, newStatus)
    \/ \E c \in Callers, taskID \in ArgTaskIDs, newPriority \in ArgAnyPriorities \cap Priorities :
           UpdateTaskPriorityCall(c, taskID, newPriority)
    \/ \E c \in Callers, taskID \in ArgTaskIDs, title \in ArgNewTitles \ ArgTitles,
          description \in ArgNewDescriptions \ ArgDescriptions, dueDate \in ArgDueDates :
           UpdateTaskDetailsCall(c, taskID, title, description, dueDate)
    \/ \E c \in Callers, taskID \in ArgTaskIDs, newAssignee \in ArgUsers :
           ReassignTaskCall(c, taskID, newAssignee)
    \/ \E c \in Callers : Resume(c)

SpecFields == Init /\ [][NextFields]_vars

\* ---------------------------------------------------------------------------
\* The invariant checker on any snapshot: the store starts with any tasks and
\* any index over the ids, and a caller has the snapshot checked
\* ---------------------------------------------------------------------------
\* a well-formed task with the id i and the assignee a
SnapshotTask(i, a) ==
    [id |-> i, title |-> "Task", description |-> "Desc", status |-> StatusPending,
     priority |-> "low", assignee |-> a, createdBy |-> "alice", createdAt |-> 0,
     updatedAt |-> 0, dueDate |-> NULL, tags |-> {"bug"}, dependencies |-> {}]

InitSnapshots ==
    /\ \E ids \in SUBSET ArgTaskIDs : \E a \in [ids -> UserIDs] :
           tasks = [i \in ids |-> SnapshotTask(i, a[i])]
    /\ userTasks \in [UserIDs -> SUBSET ArgTaskIDs]
    /\ nextTaskID = MaxTasks + 1
    /\ currentUser = "alice"
    /\ clock = 0
    /\ sessions = <<>>
    /\ now = 0
    /\ calls = [c \in Callers |-> NoCall]

\* GetSystemState and CheckAllInvariants, as the use cases call them after a
\* write; the error is what the caller gets
CheckSnapshot(c) ==
    /\ CanCall(c)
    /\ calls' = [calls EXCEPT ![c] = [NewCall(c, "CheckAllInvariants", <<>>) EXCEPT
                                         !.pc = 0, !.err = CheckAllInvariants(Snapshot)]]
    /\ UNCHANGED <<tasks, userTasks, nextTaskID, currentUser, clock, sessions, now>>

NextSnapshots == \E c \in Callers : CheckSnapshot(c)

SpecSnapshots == InitSnapshots /\ [][NextSnapshots]_vars

\* ---------------------------------------------------------------------------
\* The cycle check of CreateTask on any task graph: the stored tasks depend on
\* any ids (cycles and ids of no task included), the new id is an id of no
\* stored task, and a caller has a requested dependency set checked
\* ---------------------------------------------------------------------------
GraphIDs == 1..(MaxTasks + 1)

InitGraphs ==
    /\ \E ids \in SUBSET ArgTaskIDs : \E deps \in [ids -> SUBSET GraphIDs] :
           tasks = [i \in ids |-> [SnapshotTask(i, "alice") EXCEPT !.dependencies = deps[i]]]
    /\ nextTaskID \in GraphIDs \ DOMAIN tasks
    /\ userTasks = [u \in UserIDs |-> IF u = "alice" THEN DOMAIN tasks ELSE {}]
    /\ currentUser = "alice"
    /\ clock = 0
    /\ sessions = <<>>
    /\ now = 0
    /\ calls = [c \in Callers |-> NoCall]

\* CreateTask's call of checkCyclicDependencies with the counter's value, the
\* requested dependencies and the tasks of GetAllTasks
CheckCycle(c, dependencies) ==
    /\ CanCall(c)
    /\ calls' = [calls EXCEPT ![c] =
                    [NewCall(c, "checkCyclicDependencies", [dependencies |-> dependencies])
                         EXCEPT !.pc = 0,
                                !.err = checkCyclicDependencies(nextTaskID, dependencies, tasks)]]
    /\ UNCHANGED <<tasks, userTasks, nextTaskID, currentUser, clock, sessions, now>>

NextGraphs == \E c \in Callers, dependencies \in SUBSET GraphIDs : CheckCycle(c, dependencies)

SpecGraphs == InitGraphs /\ [][NextGraphs]_vars

\* ---------------------------------------------------------------------------
\* RefinementMapping.tla: the store seen as a state of TaskManagementImproved
\* ---------------------------------------------------------------------------
\* (a time.Time is a value and is never nil)
RefineTimestamp(goTime) == goTime % MaxTime

RefineDueDate(goDueDate) == IF goDueDate = NULL THEN "NULL" ELSE RefineTimestamp(goDueDate)

RefineTask(goTask) ==
    [id |-> goTask.id, title |-> goTask.title, description |-> goTask.description,
     status |-> goTask.status, priority |-> goTask.priority, assignee |-> goTask.assignee,
     createdBy |-> goTask.createdBy, createdAt |-> RefineTimestamp(goTask.createdAt),
     updatedAt |-> RefineTimestamp(goTask.updatedAt), dueDate |-> RefineDueDate(goTask.dueDate),
     tags |-> goTask.tags, dependencies |-> goTask.dependencies]

RefineTasks(goTasksMap) == [taskID \in DOMAIN goTasksMap |-> RefineTask(goTasksMap[taskID])]

RefineUserTasks(goUserTasks) == [user \in Users |-> goUserTasks[user]]

RefineSessions(goSessions, t) ==
    [user \in Users |->
        \E tok \in DOMAIN goSessions :
            goSessions[tok].userID = user /\ IsValid(goSessions[tok], t)]

RefineCurrentUser(goCurrentUser) == IF goCurrentUser = NULL THEN "NULL" ELSE goCurrentUser

RefineSystemState(ts, ut, nid, cu, clk, sess, t) ==
    [tasks |-> RefineTasks(ts), userTasks |-> RefineUserTasks(ut), nextTaskId |-> nid,
     currentUser |-> RefineCurrentUser(cu), clock |-> RefineTimestamp(clk),
     sessions |-> RefineSessions(sess, t)]

\* the mapped store before a call, and after the call with outcome r
RefinedBefore == RefineSystemState(tasks, userTasks, nextTaskID, currentUser, clock, sessions, now)

RefinedAfter(r) ==
    RefineSystemState(r.tasks, r.userTasks, r.nextTaskID, r.currentUser, clock, r.sessions, now)

\* ---------------------------------------------------------------------------
\* unnamed/part_005 (module TaskManagementImproved): each action as a relation
\* between a state s and its successor t
\* ---------------------------------------------------------------------------
Titles == ArgTitles

Descriptions == ArgDescriptions

TlaGetUserTasks(s, user) == IF user \in DOMAIN s.userTasks THEN s.userTasks[user] ELSE {}

TlaTaskExists(s, taskId) == taskId \in DOMAIN s.tasks

TlaAuthenticate(s, t, user) ==
    /\ user \in Users
    /\ ~s.sessions[user]
    /\ t.currentUser = user
    /\ t.sessions = [s.sessions EXCEPT ![user] = TRUE]
    /\ t.tasks = s.tasks /\ t.userTasks = s.userTasks
    /\ t.nextTaskId = s.nextTaskId /\ t.clock = s.clock

TlaLogout(s, t) ==
    /\ s.currentUser # "NULL"
    /\ s.currentUser \in Users
    /\ t.sessions = [s.sessions EXCEPT ![s.currentUser] = FALSE]
    /\ t.currentUser = "NULL"
    /\ t.tasks = s.tasks /\ t.userTasks = s.userTasks
    /\ t.nextTaskId = s.nextTaskId /\ t.clock = s.clock

TlaCreateTask(s, t, title, description, priority, assignee, dueDate, tags, deps) ==
    /\ s.currentUser # "NULL"
    /\ s.currentUser \in Users
    /\ s.nextTaskId <= MaxTasks
    /\ title \in Titles
    /\ description \in Descriptions
    /\ priority \in Priorities
    /\ assignee \in Users
    /\ (dueDate = "NULL" \/ dueDate \in 0..MaxTime)
    /\ tags \subseteq {"bug", "feature", "enhancement", "documentation"}
    /\ deps \subseteq DOMAIN s.tasks
    /\ \A dep \in deps : s.tasks[dep].status # "cancelled"
    /\ LET newTask == [id |-> s.nextTaskId, title |-> title, description |-> description,
                       status |-> IF deps = {} THEN "pending" ELSE "blocked",
                       priority |-> priority, assignee |-> assignee,
                       createdBy |-> s.currentUser, createdAt |-> s.clock,
                       updatedAt |-> s.clock, dueDate |-> dueDate, tags |-> tags,
                       dependencies |-> deps]
       IN  /\ t.tasks = [i \in DOMAIN s.tasks \cup {s.nextTaskId} |->
                            IF i = s.nextTaskId THEN newTask ELSE s.tasks[i]]
           /\ t.userTasks = [u \in Users |->
                                IF u = assignee
                                THEN TlaGetUserTasks(s, u) \cup {s.nextTaskId}
                                ELSE TlaGetUserTasks(s, u)]
           /\ t.nextTaskId = s.nextTaskId + 1
           /\ t.currentUser = s.currentUser /\ t.clock = s.clock /\ t.sessions = s.sessions

TlaUpdateTaskStatus(s, t, taskId, newStatus) ==
    /\ s.currentUser # "NULL"
    /\ s.currentUser \in Users
    /\ TlaTaskExists(s, taskId)
    /\ taskId \in TlaGetUserTasks(s, s.currentUser)
    /\ newStatus \in TaskStates
    /\ <<s.tasks[taskId].status, newStatus>> \in ValidTransitions
    /\ (newStatus = "in_progress" =>
           \A dep \in s.tasks[taskId].dependencies : s.tasks[dep].status = "completed")
    /\ t.tasks = [s.tasks EXCEPT ![taskId].status = newStatus, ![taskId].updatedAt = s.clock]
    /\ t.userTasks = s.userTasks /\ t.nextTaskId = s.nextTaskId
    /\ t.currentUser = s.currentUser /\ t.clock = s.clock /\ t.sessions = s.sessions

TlaUpdateTaskPriority(s, t, taskId, newPriority) ==
    /\ s.currentUser # "NULL"
    /\ s.currentUser \in Users
    /\ TlaTaskExists(s, taskId)
    /\ taskId \in TlaGetUserTasks(s, s.currentUser)
    /\ newPriority \in Priorities
    /\ t.tasks = [s.tasks EXCEPT ![taskId].priority = newPriority, ![taskId].updatedAt = s.clock]
    /\ t.userTasks = s.userTasks /\ t.nextTaskId = s.nextTaskId
    /\ t.currentUser = s.currentUser /\ t.clock = s.clock /\ t.sessions = s.sessions

TlaReassignTask(s, t, taskId, newAssignee) ==
    /\ s.currentUser # "NULL"
    /\ s.currentUser \in Users
    /\ TlaTaskExists(s, taskId)
    /\ taskId \in TlaGetUserTasks(s, s.currentUser)
    /\ newAssignee \in Users
    /\ newAssignee # s.tasks[taskId].assignee
    /\ LET oldAssignee == s.tasks[taskId].assignee
       IN  /\ t.tasks = [s.tasks EXCEPT ![taskId].assignee = newAssignee,
                                        ![taskId].updatedAt = s.clock]
           /\ t.userTasks = [u \in Users |->
                                IF u = oldAssignee THEN TlaGetUserTasks(s, u) \ {taskId}
                                ELSE IF u = newAssignee THEN TlaGetUserTasks(s, u) \cup {taskId}
                                ELSE TlaGetUserTasks(s, u)]
    /\ t.nextTaskId = s.nextTaskId
    /\ t.currentUser = s.currentUser /\ t.clock = s.clock /\ t.sessions = s.sessions

TlaUpdateTaskDetails(s, t, taskId, title, description, dueDate) ==
    /\ s.currentUser # "NULL"
    /\ s.currentUser \in Users
    /\ TlaTaskExists(s, taskId)
    /\ taskId \in TlaGetUserTasks(s, s.currentUser)
    /\ title \in Titles
    /\ description \in Descriptions
    /\ (dueDate = "NULL" \/ dueDate \in 0..MaxTime)
    /\ t.tasks = [s.tasks EXCEPT ![taskId].title = title, ![taskId].description = description,
                                 ![taskId].dueDate = dueDate, ![taskId].updatedAt = s.clock]
    /\ t.userTasks = s.userTasks /\ t.nextTaskId = s.nextTaskId
    /\ t.currentUser = s.currentUser /\ t.clock = s.clock /\ t.sessions = s.sessions

TlaDeleteTask(s, t, taskId) ==
    /\ s.currentUser # "NULL"
    /\ s.currentUser \in Users
    /\ TlaTaskExists(s, taskId)
    /\ taskId \in TlaGetUserTasks(s, s.currentUser)
    /\ s.tasks[taskId].status \in {"completed", "cancelled"}
    /\ \A otherTaskId \in DOMAIN s.tasks \ {taskId} :
           taskId \notin s.tasks[otherTaskId].dependencies
    /\ t.tasks = [id \in DOMAIN s.tasks \ {taskId} |-> s.tasks[id]]
    /\ t.userTasks = [u \in Users |-> TlaGetUserTasks(s, u) \ {taskId}]
    /\ t.nextTaskId = s.nextTaskId
    /\ t.currentUser = s.currentUser /\ t.clock = s.clock /\ t.sessions = s.sessions

TlaCheckDependencies(s, t) ==
    /\ \E taskId \in DOMAIN s.tasks :
           /\ s.tasks[taskId].status = "blocked"
           /\ \A dep \in s.tasks[taskId].dependencies : s.tasks[dep].status = "completed"
           /\ t.tasks = [s.tasks EXCEPT ![taskId].status = "pending",
                                        ![taskId].updatedAt = s.clock]
    /\ t.userTasks = s.userTasks /\ t.nextTaskId = s.nextTaskId
    /\ t.currentUser = s.currentUser /\ t.clock = s.clock /\ t.sessions = s.sessions

TlaBulkUpdateStatus(s, t, taskIds, newStatus) ==
    /\ s.currentUser # "NULL"
    /\ s.currentUser \in Users
    /\ taskIds \subseteq DOMAIN s.tasks
    /\ taskIds \subseteq TlaGetUserTasks(s, s.currentUser)
    /\ newStatus \in TaskStates
    /\ \A taskId \in taskIds : <<s.tasks[taskId].status, newStatus>> \in ValidTransitions
    /\ t.tasks = [taskId \in DOMAIN s.tasks |->
                     IF taskId \in taskIds
                     THEN [s.tasks[taskId] EXCEPT !.status = newStatus, !.updatedAt = s.clock]
                     ELSE s.tasks[taskId]]
    /\ t.userTasks = s.userTasks /\ t.nextTaskId = s.nextTaskId
    /\ t.currentUser = s.currentUser /\ t.clock = s.clock /\ t.sessions = s.sessions

\* ---------------------------------------------------------------------------
\* Properties
\* ---------------------------------------------------------------------------

\* C1: after every sequence of use-case operations issued one at a time the
\* store satisfies the eight safety invariants: every task id is in some
\* user's index (no orphan tasks), every task id is in its assignee's index
\* (task ownership), 1 <= id < next-id, the map key equals the id, the status
\* is one of the five, createdAt <= updatedAt, no task reaches itself along
\* dependency edges, and the creator is not empty.
C1_EightInvariantsHold ==
    /\ \A i \in DOMAIN tasks : \E u \in DOMAIN userTasks : i \in userTasks[u]
    /\ \A i \in DOMAIN tasks : i \in userTasks[tasks[i].assignee]
    /\ \A i \in DOMAIN tasks : 1 <= i /\ i < nextTaskID
    /\ \A i \in DOMAIN tasks : tasks[i].id = i
    /\ \A i \in DOMAIN tasks :
           tasks[i].status \in {"pending", "in_progress", "completed", "cancelled", "blocked"}
    /\ \A i \in DOMAIN tasks : tasks[i].createdAt <= tasks[i].updatedAt
    /\ \A S \in SUBSET DOMAIN tasks :
           S # {} => \E i \in S : tasks[i].dependencies \cap S = {}
    /\ \A i \in DOMAIN tasks : tasks[i].createdBy # "" /\ tasks[i].createdBy # NULL
    /\ CheckAllInvariants(Snapshot) = "nil"

\* C1 witness: the second task, created by one user and now assigned to the
\* other, has been updated at a later time than it was created, the first task
\* has been deleted, and the user has logged out
C1_Witness ==
    /\ nextTaskID = 3
    /\ DOMAIN tasks = {2}
    /\ tasks[2].assignee # tasks[2].createdBy
    /\ tasks[2].createdAt < tasks[2].updatedAt
    /\ tasks[2].status = StatusCompleted
    /\ currentUser = NULL

\* C2 as stated: for every pair (from, to) of the legal-transition table,
\* UpdateTaskStatus(task, to) by the authenticated assignee of a task whose
\* status is from succeeds and leaves the task's status equal to to.
C2_EveryLegalTransitionSucceeds ==
    LET LegalTable == { <<"pending", "in_progress">>, <<"pending", "cancelled">>,
                          <<"pending", "blocked">>, <<"in_progress", "completed">>,
                          <<"in_progress", "cancelled">>, <<"in_progress", "blocked">>,
                          <<"in_progress", "pending">>, <<"blocked", "pending">>,
                          <<"blocked", "in_progress">>, <<"blocked", "cancelled">> }
    IN
        \A taskID \in DOMAIN tasks, to \in TaskStates :
            (currentUser = tasks[taskID].assignee
                /\ <<tasks[taskID].status, to>> \in LegalTable)
            => LET r == UpdateTaskStatusOutcome(taskID, to)
               IN  r.err = "nil" /\ r.tasks[taskID].status = to

\* C2 (amended): for every pair (from, to) of the legal-transition table,
\* UpdateTaskStatus(task, to) by the authenticated assignee of a task whose
\* status is from succeeds and leaves the task's status equal to to, unless to
\* is in_progress and some dependency of the task is not completed: then the
\* call returns an error and leaves the store as it was.
C2_LegalTransitionSucceedsUnlessDependencyOpen ==
    LET LegalTable == { <<"pending", "in_progress">>, <<"pending", "cancelled">>,
                          <<"pending", "blocked">>, <<"in_progress", "completed">>,
                          <<"in_progress", "cancelled">>, <<"in_progress", "blocked">>,
                          <<"in_progress", "pending">>, <<"blocked", "pending">>,
                          <<"blocked", "in_progress">>, <<"blocked", "cancelled">> }
        Untouched(r) == /\ r.err # "nil"
                        /\ r.tasks = tasks
                        /\ r.userTasks = userTasks
                        /\ r.nextTaskID = nextTaskID
                        /\ r.currentUser = currentUser
                        /\ r.sessions = sessions
    IN
        \A taskID \in DOMAIN tasks, to \in TaskStates :
            (currentUser = tasks[taskID].assignee
                /\ <<tasks[taskID].status, to>> \in LegalTable)
            => LET r == UpdateTaskStatusOutcome(taskID, to)
                   open == {d \in tasks[taskID].dependencies :
                               d \in DOMAIN tasks /\ tasks[d].status # "completed"}
               IN  IF to = "in_progress" /\ open # {}
                   THEN Untouched(r)
                   ELSE /\ r.err = "nil"
                        /\ r.tasks[taskID].status = to
                        /\ r.ret = NULL

\* C2 witness: the assignee is logged in, the task is blocked, its only
\* dependency is completed, and UpdateTaskStatus to in_progress succeeds
C2_Witness ==
    \E taskID \in DOMAIN tasks :
        /\ currentUser = tasks[taskID].assignee
        /\ tasks[taskID].status = StatusBlocked
        /\ tasks[taskID].dependencies # {}
        /\ \A d \in tasks[taskID].dependencies : tasks[d].status = StatusCompleted
        /\ UpdateTaskStatusOutcome(taskID, StatusInProgress).err = "nil"
        /\ UpdateTaskStatusOutcome(taskID, StatusInProgress).tasks[taskID].status = StatusInProgress

\* C3: for every pair (from, to) that is not in the legal-transition table
\* (every self-transition and every pair from completed or cancelled among
\* them), UpdateTaskStatus on a task in state from with target to returns an
\* error and leaves the task's status and the rest of the store unchanged.
C3_IllegalTransitionRejected ==
    LET LegalTable == { <<"pending", "in_progress">>, <<"pending", "cancelled">>,
                          <<"pending", "blocked">>, <<"in_progress", "completed">>,
                          <<"in_progress", "cancelled">>, <<"in_progress", "blocked">>,
                          <<"in_progress", "pending">>, <<"blocked", "pending">>,
                          <<"blocked", "in_progress">>, <<"blocked", "cancelled">> }
        Untouched(r) == /\ r.err # "nil"
                        /\ r.tasks = tasks
                        /\ r.userTasks = userTasks
                        /\ r.nextTaskID = nextTaskID
                        /\ r.currentUser = currentUser
                        /\ r.sessions = sessions
    IN
        \A taskID \in DOMAIN tasks, to \in TaskStates :
            <<tasks[taskID].status, to>> \notin LegalTable
            => Untouched(UpdateTaskStatusOutcome(taskID, to))

\* C3 witness: the assignee of a completed task is logged in and asks for
\* pending; the call is refused as an invalid transition
C3_Witness ==
    \E taskID \in DOMAIN tasks :
        /\ currentUser = tasks[taskID].assignee
        /\ tasks[taskID].status = StatusCompleted
        /\ UpdateTaskStatusOutcome(taskID, StatusPending).err = "invalid transition"
        /\ UpdateTaskStatusOutcome(taskID, StatusCompleted).err = "invalid transition"

\* C4 as stated: no operation moves a task into in_progress while one of its
\* dependencies is not completed (UpdateTaskStatus, and every task of a
\* BulkUpdateStatus batch whose target is in_progress), so in every reachable
\* state an in_progress or completed task has only completed dependencies.
C4_StartedTasksHaveCompletedDependencies ==
    \A i \in DOMAIN tasks :
        tasks[i].status \in {"in_progress", "completed"} =>
            \A d \in tasks[i].dependencies :
                d \in DOMAIN tasks /\ tasks[d].status = "completed"

\* C5 as stated: forward simulation.  Every state change made by a successful
\* use-case operation, seen through the refinement mapping, is a step of the
\* action of TaskManagementImproved with the same name and the same arguments
\* (a call that leaves the mapped state as it was is no state change).
C5_ForwardSimulation ==
    LET s == RefinedBefore
        Step(r, allowed) == r.err = "nil" /\ RefinedAfter(r) # s => allowed
    IN  /\ \A u \in ArgUsers :
               LET r == AuthenticateOutcome(u)
               IN  Step(r, TlaAuthenticate(s, RefinedAfter(r), u))
        /\ \A u \in ArgUsers : \A tok \in GetSessionByUser(sessions, u, now) :
               LET r == LogoutOutcome(u, tok)
               IN  Step(r, TlaLogout(s, RefinedAfter(r)))
        /\ \A title \in ArgTitles, description \in ArgDescriptions, priority \in ArgPriorities,
              assignee \in ArgAssignees, dueDate \in ArgDueDates, tags \in ArgTags,
              dependencies \in SUBSET ArgTaskIDs :
               LET r == CreateTaskOutcome(title, description, priority, assignee, dueDate,
                                          tags, dependencies)
               IN  Step(r, TlaCreateTask(s, RefinedAfter(r), title, description, priority,
                                         assignee, RefineDueDate(dueDate), tags, dependencies))
        /\ \A taskID \in ArgTaskIDs, newStatus \in ArgStatuses :
               LET r == UpdateTaskStatusOutcome(taskID, newStatus)
               IN  Step(r, TlaUpdateTaskStatus(s, RefinedAfter(r), taskID, newStatus))
        /\ \A taskID \in ArgTaskIDs, newPriority \in ArgPriorities :
               LET r == UpdateTaskPriorityOutcome(taskID, newPriority)
               IN  Step(r, TlaUpdateTaskPriority(s, RefinedAfter(r), taskID, newPriority))
        /\ \A taskID \in ArgTaskIDs, newAssignee \in ArgUsers :
               LET r == ReassignTaskOutcome(taskID, newAssignee)
               IN  Step(r, TlaReassignTask(s, RefinedAfter(r), taskID, newAssignee))
        /\ \A taskID \in ArgTaskIDs, title \in ArgTitles, description \in ArgDescriptions,
              dueDate \in ArgDueDates :
               LET r == UpdateTaskDetailsOutcome(taskID, title, description, dueDate)
               IN  Step(r, TlaUpdateTaskDetails(s, RefinedAfter(r), taskID, title, description,
                                                RefineDueDate(dueDate)))
        /\ \A taskID \in ArgTaskIDs :
               LET r == DeleteTaskOutcome(taskID)
               IN  Step(r, TlaDeleteTask(s, RefinedAfter(r), taskID))
        /\ LET r == CheckDependenciesOutcome
           IN  Step(r, TlaCheckDependencies(s, RefinedAfter(r)))
        /\ \A taskIDs \in SUBSET ArgTaskIDs, newStatus \in ArgStatuses :
               LET r == BulkUpdateStatusOutcome(taskIDs, newStatus)
               IN  Step(r, TlaBulkUpdateStatus(s, RefinedAfter(r), taskIDs, newStatus))

C7_BadDependencyRejected ==
    LET Untouched(r) == /\ r.err # "nil"
                        /\ r.tasks = tasks
                        /\ r.userTasks = userTasks
                        /\ r.nextTaskID = nextTaskID
                        /\ r.currentUser = currentUser
                        /\ r.sessions = sessions
    IN
        \A title \in ArgTitles, description \in ArgDescriptions, priority \in ArgPriorities,
           assignee \in ArgAssignees, dueDate \in ArgDueDates, tags \in ArgTags,
           dependencies \in SUBSET (0..(MaxTasks + 1)) :
            (\E d \in dependencies : d \notin DOMAIN tasks \/ tasks[d].status = "cancelled")
            => Untouched(CreateTaskOutcome(title, description, priority, assignee, dueDate,
                                                tags, dependencies))

\* C7 witness: a user is logged in, there is room for a task, task 1 is
\* cancelled and task 2 does not exist; CreateTask is refused for the one
\* dependency and for the other
C7_Witness ==
    /\ currentUser # NULL
    /\ nextTaskID = 2
    /\ nextTaskID <= MaxTasks
    /\ 1 \in DOMAIN tasks
    /\ tasks[1].status = StatusCancelled
    /\ CreateTaskOutcome("Task", "Desc", "low", "alice", NULL, {"bug"}, {1}).err
           = "cannot depend on cancelled task"
    /\ CreateTaskOutcome("Task", "Desc", "low", "alice", NULL, {"bug"}, {2}).err
           = "dependency task does not exist"

C9_SweepUnblocksExactlyTheReady ==
    LET r == CheckDependenciesOutcome
        ready == {i \in DOMAIN tasks :
                     /\ tasks[i].status = "blocked"
                     /\ \A d \in tasks[i].dependencies : tasks[d].status = "completed"}
        second == checkDependenciesLoop(r.tasks, now)
    IN  /\ r.err = "nil"
        /\ r.ret = Cardinality(ready)
        /\ DOMAIN r.tasks = DOMAIN tasks
        /\ \A i \in ready : r.tasks[i].status = "pending"
        /\ \A i \in DOMAIN tasks \ ready : r.tasks[i] = tasks[i]
        /\ r.userTasks = userTasks /\ r.nextTaskID = nextTaskID
        /\ r.currentUser = currentUser /\ r.sessions = sessions
        /\ second.unblockedCount = 0
        /\ second.tasks = r.tasks

\* C9 witness: a task is blocked and all its dependencies are completed; the
\* sweep sets it to pending and returns 1
C9_Witness ==
    \E i \in DOMAIN tasks :
        /\ tasks[i].status = StatusBlocked
        /\ tasks[i].dependencies # {}
        /\ \A d \in tasks[i].dependencies : tasks[d].status = StatusCompleted
        /\ CheckDependenciesOutcome.ret = 1
        /\ CheckDependenciesOutcome.tasks[i].status = StatusPending

\* C10: DeleteTask by the authenticated assignee fails whenever another
\* existing task lists the target as a dependency, even when the target is
\* completed; it succeeds whenever the target is completed or cancelled and no
\* task depends on it, and then the task is gone from the task map and from
\* its assignee's index.
C10_DeleteRespectsDependents ==
    LET Untouched(r) == /\ r.err # "nil"
                        /\ r.tasks = tasks
                        /\ r.userTasks = userTasks
                        /\ r.nextTaskID = nextTaskID
                        /\ r.currentUser = currentUser
                        /\ r.sessions = sessions
    IN
        \A taskID \in DOMAIN tasks :
            currentUser = tasks[taskID].assignee =>
                LET r == DeleteTaskOutcome(taskID)
                    dependents == {i \in DOMAIN tasks \ {taskID} : taskID \in tasks[i].dependencies}
                IN  /\ dependents # {} => Untouched(r)
                    /\ (dependents = {} /\ tasks[taskID].status \in {"completed", "cancelled"}) =>
                           /\ r.err = "nil"
                           /\ DOMAIN r.tasks = DOMAIN tasks \ {taskID}
                           /\ \A i \in DOMAIN r.tasks : r.tasks[i] = tasks[i]
                           /\ \A u \in DOMAIN userTasks : r.userTasks[u] = userTasks[u] \ {taskID}
                           /\ taskID \in userTasks[tasks[taskID].assignee]
                           /\ r.nextTaskID = nextTaskID

\* C10 witness: the assignee of a completed task is logged in and a completed
\* task depends on it: deleting the dependency is refused, deleting the
\* dependent succeeds
C10_Witness ==
    \E taskID \in DOMAIN tasks, i \in DOMAIN tasks :
        /\ currentUser = tasks[taskID].assignee
        /\ currentUser = tasks[i].assignee
        /\ tasks[taskID].status = StatusCompleted
        /\ tasks[i].status = StatusCompleted
        /\ taskID \in tasks[i].dependencies
        /\ DeleteTaskOutcome(taskID).err = "cannot delete task: tasks depend on it"
        /\ DeleteTaskOutcome(i).err = "nil"

\* C11 as stated: while one ReassignTask call runs alone (no other caller has
\* started), after each of its steps the task id is in the index of exactly
\* one user, whatever the new assignee is (the current assignee included), and
\* when the call has returned the id is in the new assignee's index only.
C11_ReassignMovesIndexAtomically ==
    \A c \in Callers :
        (/\ calls[c].op = "ReassignTask"
         /\ \A d \in Callers \ {c} : calls[d].n = 0
         /\ calls[c].args.taskID \in DOMAIN tasks)
        => LET holders == {u \in DOMAIN userTasks : calls[c].args.taskID \in userTasks[u]}
           IN  /\ calls[c].pc > 0 => Cardinality(holders) = 1
               /\ (calls[c].pc = 0 /\ calls[c].err = "nil")
                      => holders = {calls[c].args.newAssignee}

\* C12 as stated: for every interleaving of concurrent calls on a task (two
\* ReassignTask calls, or ReassignTask with UpdateTaskStatus,
\* UpdateTaskPriority, UpdateTaskDetails or CheckDependencies), once all calls
\* have returned each existing task's id is in the index of exactly one user,
\* and that user is the task's recorded assignee.
C12_IndexMatchesAssigneeAfterConcurrentCalls ==
    (\A c \in Callers : calls[c].pc = 0)
    => \A i \in DOMAIN tasks :
           {u \in DOMAIN userTasks : i \in userTasks[u]} = {tasks[i].assignee}

\* C13 as stated: when all callers invoke CreateTask concurrently with valid
\* inputs (no dependencies) while a user is authenticated and the store has
\* room for all of them (it is empty and each caller makes its first call),
\* every call succeeds and the identifiers of the tasks created are pairwise
\* distinct and form a consecutive range without gaps.
C13_ConcurrentCreatesAllSucceed ==
    (/\ currentUser # NULL
     /\ MaxCallers <= MaxTasks
     /\ \A c \in Callers : /\ calls[c].op = "CreateTask"
                           /\ calls[c].n = 1
                           /\ calls[c].pc = 0
                           /\ calls[c].args.dependencies = {})
    => /\ \A c \in Callers : calls[c].err = "nil"
       /\ \A c, d \in Callers : c # d => calls[c].ret # calls[d].ret
       /\ \E lo \in 1..MaxTasks :
              {calls[c].ret : c \in Callers} = lo..(lo + MaxCallers - 1)

\* C14 as stated: no snapshot of the store taken while a CreateTask is in
\* flight (by another caller's operation or by an audit: GetSystemState can
\* run between any two steps) holds a task whose id is greater than or equal
\* to the snapshot's next-id counter.
C14_NoTornSnapshot ==
    LET state == GetSystemState(tasks, userTasks, nextTaskID, currentUser, clock, sessions, now)
    IN  \A i \in DOMAIN state.Tasks : state.Tasks[i].id < state.NextTaskID

\* C15 as stated: in every reachable state, every interleaving of concurrent
\* Authenticate and Logout calls for the same user included, each user has at
\* most one valid (active and unexpired) session in the session table.
C15_AtMostOneValidSessionPerUser ==
    \A u \in UserIDs :
        Cardinality({tok \in DOMAIN sessions :
                        /\ sessions[tok].userID = u
                        /\ sessions[tok].active
                        /\ ~(now > sessions[tok].expiresAt)}) <= 1

\* C16 as stated: terminal states are absorbing in every execution.  No step
\* of any interleaving of concurrent UpdateTaskStatus, BulkUpdateStatus,
\* CheckDependencies, UpdateTaskPriority, UpdateTaskDetails and ReassignTask
\* calls changes the status of a task that is completed or cancelled.
C16_TerminalStatesAbsorbing ==
    [][\A i \in DOMAIN tasks :
           (tasks[i].status \in {"completed", "cancelled"} /\ i \in DOMAIN tasks')
           => tasks'[i].status = tasks[i].status]_vars

\* C17 as stated: no task is deleted while another existing task lists it as
\* a dependency, so in every reachable state every dependency id of every
\* task refers to an existing task, for every interleaving of a DeleteTask
\* with a concurrent CreateTask that names the deleted task as a dependency.
C17_DependenciesExist ==
    \A i \in DOMAIN tasks : \A d \in tasks[i].dependencies : d \in DOMAIN tasks

\* the store an outcome leaves is the store the call found
StoreUntouched(r) ==
    /\ r.tasks = tasks
    /\ r.userTasks = userTasks
    /\ r.nextTaskID = nextTaskID
    /\ r.currentUser = currentUser
    /\ r.sessions = sessions

\* C18 (one call at a time): whenever an operation returns an error, the
\* store is what it was before the call, for every operation and every
\* argument in every reachable state.
C18_ErrorLeavesNoMutation ==
    /\ \A u \in ArgUsers :
           LET r == AuthenticateOutcome(u) IN r.err # "nil" => StoreUntouched(r)
    /\ \A u \in ArgUsers, tok \in DOMAIN sessions \cup {0} :
           LET r == LogoutOutcome(u, tok) IN r.err # "nil" => StoreUntouched(r)
    /\ \A title \in ArgTitles, description \in ArgDescriptions, priority \in ArgPriorities,
          assignee \in ArgAssignees, dueDate \in ArgDueDates, tags \in ArgTags,
          dependencies \in SUBSET ArgTaskIDs :
           LET r == CreateTaskOutcome(title, description, priority, assignee, dueDate, tags,
                                      dependencies)
           IN  r.err # "nil" => StoreUntouched(r)
    /\ \A taskID \in ArgTaskIDs, newStatus \in ArgStatuses :
           LET r == UpdateTaskStatusOutcome(taskID, newStatus)
           IN  r.err # "nil" => StoreUntouched(r)
    /\ \A taskID \in ArgTaskIDs, newPriority \in ArgPriorities :
           LET r == UpdateTaskPriorityOutcome(taskID, newPriority)
           IN  r.err # "nil" => StoreUntouched(r)
    /\ \A taskID \in ArgTaskIDs, newAssignee \in ArgUsers :
           LET r == ReassignTaskOutcome(taskID, newAssignee)
           IN  r.err # "nil" => StoreUntouched(r)
    /\ \A taskID \in ArgTaskIDs, title \in ArgTitles, description \in ArgDescriptions,
          dueDate \in ArgDueDates :
           LET r == UpdateTaskDetailsOutcome(taskID, title, description, dueDate)
           IN  r.err # "nil" => StoreUntouched(r)
    /\ \A taskID \in ArgTaskIDs :
           LET r == DeleteTaskOutcome(taskID) IN r.err # "nil" => StoreUntouched(r)
    /\ LET r == CheckDependenciesOutcome IN r.err # "nil" => StoreUntouched(r)
    /\ \A taskIDs \in SUBSET ArgTaskIDs, newStatus \in ArgStatuses :
           LET r == BulkUpdateStatusOutcome(taskIDs, newStatus)
           IN  r.err # "nil" => StoreUntouched(r)

\* C18 as stated, for calls that run at the same time: a call that has
\* returned an error has left no write in the store (every repository write
\* it made was taken back).  wrote records that a call made a repository
\* write, and Rollback takes none back.
C18_FailedCallLeftNoWrite ==
    \A c \in Callers : (calls[c].pc = 0 /\ calls[c].err # "nil") => ~calls[c].wrote

\* an outcome that is the authentication error and leaves the store alone
AuthenticationRefused(r) == r.err = "authentication required" /\ StoreUntouched(r)

\* C19: while no user is the current user, CreateTask, UpdateTaskStatus,
\* UpdateTaskPriority, ReassignTask, UpdateTaskDetails, DeleteTask and
\* BulkUpdateStatus each return the authentication error and leave the store
\* unchanged, whatever their arguments.
C19_UnauthenticatedCallsRefused ==
    currentUser = NULL =>
        /\ \A title \in ArgTitles, description \in ArgDescriptions, priority \in ArgPriorities,
              assignee \in ArgAssignees, dueDate \in ArgDueDates, tags \in ArgTags,
              dependencies \in SUBSET ArgTaskIDs :
               AuthenticationRefused(CreateTaskOutcome(title, description, priority, assignee,
                                                       dueDate, tags, dependencies))
        /\ \A taskID \in ArgTaskIDs, newStatus \in ArgStatuses :
               AuthenticationRefused(UpdateTaskStatusOutcome(taskID, newStatus))
        /\ \A taskID \in ArgTaskIDs, newPriority \in ArgPriorities :
               AuthenticationRefused(UpdateTaskPriorityOutcome(taskID, newPriority))
        /\ \A taskID \in ArgTaskIDs, newAssignee \in ArgUsers :
               AuthenticationRefused(ReassignTaskOutcome(taskID, newAssignee))
        /\ \A taskID \in ArgTaskIDs, title \in ArgTitles, description \in ArgDescriptions,
              dueDate \in ArgDueDates :
               AuthenticationRefused(UpdateTaskDetailsOutcome(taskID, title, description, dueDate))
        /\ \A taskID \in ArgTaskIDs : AuthenticationRefused(DeleteTaskOutcome(taskID))
        /\ \A taskIDs \in SUBSET ArgTaskIDs, newStatus \in ArgStatuses :
               AuthenticationRefused(BulkUpdateStatusOutcome(taskIDs, newStatus))

\* nobody is logged in any more, tasks are stored and there is room for another
C19_Witness ==
    /\ currentUser = NULL
    /\ DOMAIN tasks # {}
    /\ nextTaskID <= MaxTasks
    /\ \E i \in DOMAIN tasks : tasks[i].status = StatusPending

\* the tokens of the sessions of user u that are active and not expired
ValidSessionsOf(sess, u) ==
    {tok \in DOMAIN sess : /\ sess[tok].userID = u
                           /\ sess[tok].active
                           /\ ~(now > sess[tok].expiresAt)}

\* C20: Authenticate(u) is rejected and leaves sessions and current user (and
\* the rest of the store) unchanged when u is not a known user or already
\* holds a valid session; otherwise it succeeds, adds exactly one session,
\* which belongs to u and is active and valid, keeps the other sessions as
\* they were, and makes u the current user.
C20_AuthenticateContract ==
    \A u \in UserIDs :
        LET r == AuthenticateOutcome(u)
        IN  IF u \notin Users \/ ValidSessionsOf(sessions, u) # {}
            THEN r.err # "nil" /\ r.ret = NULL /\ StoreUntouched(r)
            ELSE /\ r.err = "nil"
                 /\ r.ret \notin DOMAIN sessions
                 /\ DOMAIN r.sessions = DOMAIN sessions \cup {r.ret}
                 /\ \A tok \in DOMAIN sessions : r.sessions[tok] = sessions[tok]
                 /\ r.sessions[r.ret].userID = u
                 /\ ValidSessionsOf(r.sessions, u) = {r.ret}
                 /\ r.currentUser = u
                 /\ r.tasks = tasks /\ r.userTasks = userTasks /\ r.nextTaskID = nextTaskID

\* one user holds a valid session, and another known user holds only a
\* session that has expired (it is still marked active)
C20_Witness ==
    \E u, v \in Users :
        /\ u # v
        /\ ValidSessionsOf(sessions, u) # {}
        /\ ValidSessionsOf(sessions, v) = {}
        /\ \E tok \in DOMAIN sessions :
               /\ sessions[tok].userID = v
               /\ sessions[tok].active
               /\ now > sessions[tok].expiresAt

\* the session Logout(u) deactivates: the valid one GetSessionByUser returns,
\* or no token of the table when there is none
LogoutTokens(u) ==
    LET found == GetSessionByUser(sessions, u, now) IN IF found = {} THEN {0} ELSE found

\* C21 as stated: whenever u holds a valid session, Logout(u) succeeds and
\* leaves u without a valid session (so a rejection happens only when u has
\* no valid session).
C21_LogoutSucceedsForEveryValidSession ==
    \A u \in UserIDs : \A tok \in LogoutTokens(u) :
        ValidSessionsOf(sessions, u) # {} =>
            LET r == LogoutOutcome(u, tok)
            IN  r.err = "nil" /\ ValidSessionsOf(r.sessions, u) = {}

\* C21, amended: Logout(u) is rejected, with the store untouched, exactly when
\* u is not the current user (nobody is, or somebody else is, even if u holds
\* a valid session); when u is the current user, Logout(u) succeeds, clears
\* the current user, leaves u without a valid session and every other
\* session and the tasks as they were, and in the state after a Logout step
\* Authenticate(u) succeeds.
C21_LogoutOfCurrentUser ==
    /\ [](\A u \in UserIDs : \A tok \in LogoutTokens(u) :
            LET r == LogoutOutcome(u, tok)
            IN  IF currentUser # u
                THEN r.err # "nil" /\ StoreUntouched(r)
                ELSE /\ r.err = "nil"
                     /\ r.currentUser = NULL
                     /\ ValidSessionsOf(r.sessions, u) = {}
                     /\ DOMAIN r.sessions = DOMAIN sessions
                     /\ \A t \in DOMAIN sessions :
                            IF t = tok THEN r.sessions[t] = [sessions[t] EXCEPT !.active = FALSE]
                            ELSE r.sessions[t] = sessions[t]
                     /\ r.tasks = tasks /\ r.userTasks = userTasks
                     /\ r.nextTaskID = nextTaskID)
    /\ [][\A u \in Users :
            (currentUser = u /\ currentUser' = NULL) => (AuthenticateOutcome(u).err = "nil")']_vars

\* two users hold valid sessions and one of them is the current user
C21_Witness ==
    \E u, v \in Users :
        /\ u # v
        /\ currentUser = v
        /\ ValidSessionsOf(sessions, u) # {}
        /\ ValidSessionsOf(sessions, v) # {}

\* C22: BulkUpdateStatus is all-or-nothing.  If an id of the batch is missing,
\* names a task not assigned to the current user, or names a task whose
\* status has no legal transition to the target status, the call fails and
\* the store is unchanged; otherwise the call succeeds, every task of the
\* batch has the target status and every other task is unchanged.
C22_BulkAllOrNothing ==
    currentUser # NULL =>
        \A taskIDs \in SUBSET ArgTaskIDs, newStatus \in ArgStatuses :
            LET r == BulkUpdateStatusOutcome(taskIDs, newStatus)
                failing == {i \in taskIDs :
                               \/ i \notin DOMAIN tasks
                               \/ /\ i \in DOMAIN tasks
                                  /\ \/ tasks[i].assignee # currentUser
                                     \/ <<tasks[i].status, newStatus>> \notin ValidTransitions}
            IN  IF failing # {}
                THEN r.err # "nil" /\ StoreUntouched(r)
                ELSE /\ r.err = "nil"
                     /\ DOMAIN r.tasks = DOMAIN tasks
                     /\ \A i \in taskIDs : r.tasks[i].status = newStatus
                     /\ \A i \in DOMAIN tasks \ taskIDs : r.tasks[i] = tasks[i]
                     /\ r.userTasks = userTasks /\ r.nextTaskID = nextTaskID

\* the current user has a task that can be cancelled, and another task is
\* somebody else's: a batch of both must fail, a batch of the first succeeds
C22_Witness ==
    /\ currentUser # NULL
    /\ \E i, j \in DOMAIN tasks :
           /\ tasks[i].assignee = currentUser
           /\ tasks[i].status \in {StatusPending, StatusInProgress, StatusBlocked}
           /\ tasks[j].assignee # currentUser

\* C23 as stated: for a stored task whose assignee is not the current user,
\* UpdateTaskStatus, UpdateTaskPriority, ReassignTask, UpdateTaskDetails,
\* DeleteTask and BulkUpdateStatus (of a batch naming the task) are each
\* rejected and leave the store, the task and the indexes included, unchanged.
C23_OnlyAssigneeOperates ==
    \A taskID \in DOMAIN tasks :
        (currentUser # NULL /\ tasks[taskID].assignee # currentUser) =>
            /\ \A newStatus \in ArgStatuses :
                   LET r == UpdateTaskStatusOutcome(taskID, newStatus)
                   IN  r.err # "nil" /\ StoreUntouched(r)
            /\ \A newPriority \in ArgPriorities :
                   LET r == UpdateTaskPriorityOutcome(taskID, newPriority)
                   IN  r.err # "nil" /\ StoreUntouched(r)
            /\ \A newAssignee \in ArgUsers :
                   LET r == ReassignTaskOutcome(taskID, newAssignee)
                   IN  r.err # "nil" /\ StoreUntouched(r)
            /\ \A title \in ArgTitles, description \in ArgDescriptions, dueDate \in ArgDueDates :
                   LET r == UpdateTaskDetailsOutcome(taskID, title, description, dueDate)
                   IN  r.err # "nil" /\ StoreUntouched(r)
            /\ LET r == DeleteTaskOutcome(taskID) IN r.err # "nil" /\ StoreUntouched(r)
            /\ \A taskIDs \in SUBSET ArgTaskIDs, newStatus \in ArgStatuses :
                   taskID \in taskIDs =>
                       LET r == BulkUpdateStatusOutcome(taskIDs, newStatus)
                       IN  r.err # "nil" /\ StoreUntouched(r)

\* C24 as stated: in every reachable state the assignee of every task is a
\* registered user; CreateTask and ReassignTask never leave a task assigned
\* to an unknown user id.
C24_AssigneeIsRegisteredUser ==
    \A i \in DOMAIN tasks : tasks[i].assignee \in Users

\* C25 as stated: CreateTask is rejected for capacity exactly when the number
\* of stored tasks has reached MaxTasks; in a store with fewer tasks (after
\* deletions from a full store in particular) CreateTask is not rejected for
\* capacity.
C25_CapacityCountsStoredTasks ==
    currentUser # NULL =>
        \A title \in ArgTitles, description \in ArgDescriptions, priority \in ArgPriorities,
           assignee \in ArgAssignees, dueDate \in ArgDueDates, tags \in ArgTags :
            LET r == CreateTaskOutcome(title, description, priority, assignee, dueDate, tags, {})
            IN  (r.err = "maximum number of tasks reached")
                    <=> (Cardinality(DOMAIN tasks) >= MaxTasks)

AllUsersDone == \A c \in Callers : calls[c].pc = 0 /\ calls[c].n = MaxCallsInSequence

\* C27: after the users have concurrently run Authenticate followed by
\* repeated CreateTask calls, in any interleaving, the state reached once
\* every call has returned satisfies the eight safety invariants (spelled out
\* over the store, and as the engine's CheckAllInvariants on the snapshot).
C27_InvariantsAfterConcurrentUsers ==
    AllUsersDone =>
        /\ \A i \in DOMAIN tasks : \E u \in DOMAIN userTasks : i \in userTasks[u]
        /\ \A i \in DOMAIN tasks : i \in userTasks[tasks[i].assignee]
        /\ \A i \in DOMAIN tasks : 1 <= i /\ i < nextTaskID
        /\ \A i \in DOMAIN tasks : tasks[i].id = i
        /\ \A i \in DOMAIN tasks : tasks[i].status \in TaskStates
        /\ \A i \in DOMAIN tasks : tasks[i].createdAt <= tasks[i].updatedAt
        /\ \A S \in SUBSET DOMAIN tasks :
               S # {} => \E i \in S : tasks[i].dependencies \cap S = {}
        /\ \A i \in DOMAIN tasks : tasks[i].createdBy # "" /\ tasks[i].createdBy # NULL
        /\ SnapshotCheck = "nil"

\* all calls have returned, two tasks are stored, and a call had failed on
\* the way (the interleaving was not a sequential one)
C27_Witness ==
    /\ AllUsersDone
    /\ Cardinality(DOMAIN tasks) = 2
    /\ \E c \in Callers : calls[c].err # "nil"
    /\ \E i \in DOMAIN tasks : tasks[i].createdBy # tasks[i].assignee

\* C28 as stated: whenever the current user is not null, that user holds a
\* valid (active and unexpired) session.
C28_CurrentUserHoldsValidSession ==
    currentUser # NULL => ValidSessionsOf(sessions, currentUser) # {}

\* C29 as stated: an operation that has changed the store evaluates the
\* invariant engine on a snapshot taken after its mutation before it reports
\* success; so at the step at which a call that wrote to the store returns
\* without an error, the engine accepts the snapshot of the store.
C29_SuccessReportedAfterInvariantCheck ==
    [][\A c \in Callers :
          (/\ calls[c].pc > 0
           /\ calls'[c].pc = 0
           /\ calls'[c].err = "nil"
           /\ calls'[c].wrote)
          => (SnapshotCheck = "nil")']_vars

\* C30 as stated: in every reachable state the priority of every task is one
\* of low, medium, high, critical; CreateTask, UpdateTaskPriority and
\* UpdateTaskDetails never store a task with another priority value.
C30_PriorityIsValid ==
    \A i \in DOMAIN tasks : tasks[i].priority \in {"low", "medium", "high", "critical"}

\* C31 as stated: in every reachable state a task whose status is blocked
\* has at least one dependency that is not completed.
C31_BlockedHasOpenDependency ==
    \A i \in DOMAIN tasks :
        tasks[i].status = StatusBlocked =>
            \E d \in tasks[i].dependencies :
                d \notin DOMAIN tasks \/ tasks[d].status # StatusCompleted

\* C32 as stated: every dependency of a stored task has an id strictly
\* smaller than the task's own id.
C32_DependenciesAreOlder ==
    \A i \in DOMAIN tasks : \A d \in tasks[i].dependencies : d < i

\* C33 as stated: every stored task has createdAt <= updatedAt and
\* updatedAt <= the store's clock.
C33_ConsistentTimestamps ==
    \A i \in DOMAIN tasks :
        /\ tasks[i].createdAt <= tasks[i].updatedAt
        /\ tasks[i].updatedAt <= clock

\* the task i is in the list of its assignee
InAssigneeIndex(i) == i \in userTasks[tasks[i].assignee]

\* the task i is in the list of a user who is not its assignee
InForeignIndex(i) == \E u \in UserIDs : u # tasks[i].assignee /\ i \in userTasks[u]

\* the two index checks of CheckAllInvariants pass on the snapshot
IndexChecksPass == checkNoOrphanTasks(Snapshot) /\ checkTaskOwnership(Snapshot)

\* the snapshot has been checked, and this is what the callers were told
SnapshotVerdicts == {calls[c].err : c \in {k \in Callers : calls[k].op = "CheckAllInvariants"}}

\* C34 as stated: the index checks pass exactly when every task id is in the
\* list of its assignee and in no other user's list; a task id that is
\* missing from its assignee's list or present in another user's list makes
\* CheckAllInvariants report a violation.
C34_IndexChecksExact ==
    /\ IndexChecksPass <=>
           \A i \in DOMAIN tasks : InAssigneeIndex(i) /\ ~InForeignIndex(i)
    /\ (\E i \in DOMAIN tasks : ~InAssigneeIndex(i) \/ InForeignIndex(i)) =>
           /\ SnapshotCheck # "nil"
           /\ "nil" \notin SnapshotVerdicts

\* C34 amended: the index checks pass exactly when every task id is in the
\* list of its assignee; a task id missing from its assignee's list makes
\* CheckAllInvariants report a violation, and a snapshot whose only fault is
\* a task id that is also in another user's list passes.
C34_IndexChecksAssigneeOnly ==
    /\ IndexChecksPass <=> \A i \in DOMAIN tasks : InAssigneeIndex(i)
    /\ (\E i \in DOMAIN tasks : ~InAssigneeIndex(i)) =>
           /\ SnapshotCheck \in {"NoOrphanTasks violated", "TaskOwnership violated"}
           /\ SnapshotVerdicts \subseteq {SnapshotCheck}
    /\ (\A i \in DOMAIN tasks : InAssigneeIndex(i)) =>
           /\ SnapshotCheck = "nil"
           /\ SnapshotVerdicts \subseteq {"nil"}

\* a checked snapshot with a task in another user's list only, and one with
\* a task in its assignee's list and in another user's list as well
C34_Witness ==
    /\ SnapshotVerdicts # {}
    /\ \/ \E i \in DOMAIN tasks : ~InAssigneeIndex(i) /\ InForeignIndex(i)
       \/ \E i \in DOMAIN tasks : InAssigneeIndex(i) /\ InForeignIndex(i)

\* the dependency edges of the stored tasks together with the requested edges
\* of the new task; an id of no task has no edge
EdgesWith(newTaskID, dependencies, n) ==
    IF n = newTaskID THEN dependencies
    ELSE IF n \in DOMAIN tasks THEN tasks[n].dependencies ELSE {}

RECURSIVE ReachWithin(_, _, _, _)
\* the ids reached from the set from by at most k further edges
ReachWithin(newTaskID, dependencies, from, k) ==
    IF k = 0 THEN from
    ELSE ReachWithin(newTaskID, dependencies,
                     from \cup UNION {EdgesWith(newTaskID, dependencies, n) : n \in from}, k - 1)

\* the ids reached from n by one edge or more
ReachedFrom(newTaskID, dependencies, n) ==
    ReachWithin(newTaskID, dependencies, EdgesWith(newTaskID, dependencies, n), MaxTasks + 1)

\* the new task reaches itself, or reaches a task that reaches itself
ReachesCycle(newTaskID, dependencies) ==
    \/ newTaskID \in ReachedFrom(newTaskID, dependencies, newTaskID)
    \/ \E n \in ReachedFrom(newTaskID, dependencies, newTaskID) :
           n \in ReachedFrom(newTaskID, dependencies, n)

\* C35 as stated: for every task graph, every new id and every requested
\* dependency set, the cycle check rejects exactly when the new task, with
\* its requested edges, reaches itself or a cycle among the stored tasks, and
\* accepts otherwise.
C35_CycleCheckExact ==
    /\ \A dependencies \in SUBSET GraphIDs :
           checkCyclicDependencies(nextTaskID, dependencies, tasks) =
               IF ReachesCycle(nextTaskID, dependencies)
               THEN "cyclic dependency detected" ELSE "nil"
    /\ \A c \in Callers :
           calls[c].op = "checkCyclicDependencies" =>
               (calls[c].err = "cyclic dependency detected"
                    <=> ReachesCycle(nextTaskID, calls[c].args.dependencies))

\* a requested set was rejected because the new task reaches a cycle among
\* the stored tasks, and another was accepted although the stored tasks have
\* a cycle, which the new task does not reach
C35_Witness ==
    /\ \E c \in Callers :
           /\ calls[c].op = "checkCyclicDependencies"
           /\ calls[c].err = "cyclic dependency detected"
           /\ nextTaskID \notin ReachedFrom(nextTaskID, calls[c].args.dependencies, nextTaskID)
    /\ \E c \in Callers :
           /\ calls[c].op = "checkCyclicDependencies"
           /\ calls[c].err = "nil"
           /\ \E n \in DOMAIN tasks : n \in ReachedFrom(nextTaskID, {}, n)

\* the task i is blocked and every one of its dependencies is a stored,
\* completed task
BlockedOnCompleted(i) ==
    /\ i \in DOMAIN tasks
    /\ tasks[i].status = StatusBlocked
    /\ \A d \in tasks[i].dependencies : d \in DOMAIN tasks /\ tasks[d].status = StatusCompleted

OnlyTargetFieldsWritten(r, taskID, addressed) ==
    /\ DOMAIN r.tasks = DOMAIN tasks
    /\ \A j \in DOMAIN tasks \ {taskID} : r.tasks[j] = tasks[j]
    /\ \A f \in DOMAIN tasks[taskID] \ (addressed \cup {"updatedAt"}) :
           r.tasks[taskID][f] = tasks[taskID][f]
    /\ r.tasks[taskID].id = tasks[taskID].id
    /\ r.tasks[taskID].assignee = tasks[taskID].assignee
    /\ r.tasks[taskID].createdBy = tasks[taskID].createdBy
    /\ r.tasks[taskID].createdAt = tasks[taskID].createdAt
    /\ r.tasks[taskID].dependencies = tasks[taskID].dependencies
    /\ r.tasks[taskID].updatedAt = now
    /\ r.userTasks = userTasks
    /\ r.nextTaskID = nextTaskID
    /\ r.currentUser = currentUser
    /\ r.sessions = sessions

\* C37 as stated: a successful UpdateTaskStatus, UpdateTaskPriority or
\* UpdateTaskDetails writes the addressed fields and updatedAt of the target
\* task only; every other task, the index, the counter, the current user and
\* the sessions are unchanged, and the target keeps its id, assignee, creator,
\* createdAt and dependency set.
C37_UpdatesWriteTargetOnly ==
    /\ \A taskID \in ArgTaskIDs, newStatus \in ArgStatuses :
           LET r == UpdateTaskStatusOutcome(taskID, newStatus)
           IN  r.err = "nil" =>
                   /\ OnlyTargetFieldsWritten(r, taskID, {"status"})
                   /\ r.tasks[taskID].status = newStatus
    /\ \A taskID \in ArgTaskIDs, newPriority \in Priorities :
           LET r == UpdateTaskPriorityOutcome(taskID, newPriority)
           IN  r.err = "nil" =>
                   /\ OnlyTargetFieldsWritten(r, taskID, {"priority"})
                   /\ r.tasks[taskID].priority = newPriority
    /\ \A taskID \in ArgTaskIDs, title \in ArgNewTitles, description \in ArgNewDescriptions, dueDate \in ArgDueDates :
           LET r == UpdateTaskDetailsOutcome(taskID, title, description, dueDate)
           IN  r.err = "nil" =>
                   /\ OnlyTargetFieldsWritten(r, taskID, {"title", "description", "dueDate"})
                   /\ r.tasks[taskID].title = title
                   /\ r.tasks[taskID].description = description
                   /\ r.tasks[taskID].dueDate = dueDate

\* the current user's task 1 can be completed and by now the clock has gone
\* on since it was created, while task 2, of another user, is blocked on it
C37_Witness ==
    /\ DOMAIN tasks = {1, 2}
    /\ UpdateTaskStatusOutcome(1, StatusCompleted).err = "nil"
    /\ UpdateTaskPriorityOutcome(1, "high").err = "nil"
    /\ UpdateTaskDetailsOutcome(1, "Renamed", "Rewritten", NULL).err = "nil"
    /\ tasks[1].createdAt < now
    /\ tasks[2].status = StatusBlocked
    /\ 1 \in tasks[2].dependencies
    /\ tasks[2].assignee # currentUser

\* C38 as stated: in no reachable state does CreateTask return 'cyclic
\* dependency detected', whatever dependencies are requested (the ids of
\* stored tasks, of no task, and the id the new task would get), and no
\* call that has returned has returned it.
C38_NoCycleRejection ==
    /\ \A title \in ArgTitles, description \in ArgDescriptions, priority \in ArgPriorities, assignee \in ArgAssignees, dueDate \in ArgDueDates, tags \in ArgTags, dependencies \in SUBSET GraphIDs :
           CreateTaskOutcome(title, description, priority, assignee, dueDate, tags, dependencies).err
               # "cyclic dependency detected"
    /\ \A c \in Callers : calls[c].err # "cyclic dependency detected"

\* a stored dependency of the stored task i is cancelled
HasCancelledDependency(i) ==
    \E d \in tasks[i].dependencies : d \in DOMAIN tasks /\ tasks[d].status = StatusCancelled

\* C39 as stated: while a dependency of a task is cancelled, no
\* UpdateTaskStatus call moves the task into in_progress or completed and
\* CheckDependencies does not unblock it; its assignee can still move it from
\* blocked to pending and, unless it is completed or cancelled already, to
\* cancelled.
C39_CancelledDependencyStalls ==
    \A i \in DOMAIN tasks :
        HasCancelledDependency(i) =>
            /\ UpdateTaskStatusOutcome(i, StatusInProgress).err # "nil"
            /\ UpdateTaskStatusOutcome(i, StatusCompleted).err # "nil"
            /\ CheckDependenciesOutcome.tasks[i].status = tasks[i].status
            /\ (currentUser = tasks[i].assignee /\ tasks[i].status = StatusBlocked) =>
                   UpdateTaskStatusOutcome(i, StatusPending).err = "nil"
            /\ (currentUser = tasks[i].assignee
                    /\ tasks[i].status \in {StatusPending, StatusInProgress, StatusBlocked}) =>
                   UpdateTaskStatusOutcome(i, StatusCancelled).err = "nil"

\* the call k has returned nil and the stored task has what the call wrote
CallReflected(k) ==
    LET t == tasks[k.args.taskID]
    IN  CASE k.op = "UpdateTaskStatus" -> t.status = k.args.newStatus
          [] k.op = "UpdateTaskPriority" -> t.priority = k.args.newPriority
          [] k.op = "UpdateTaskDetails" ->
                 t.title = k.args.title /\ t.description = k.args.description
          [] k.op = "ReassignTask" -> t.assignee = k.args.newAssignee
          [] OTHER -> TRUE

\* C40 as stated: when two calls that write different fields of the same task
\* (two different use cases among UpdateTaskStatus, UpdateTaskPriority,
\* UpdateTaskDetails and ReassignTask) run concurrently and both return
\* success, the stored task has both changes.
C40_BothChangesKept ==
    \A c, d \in Callers :
        (/\ c # d
         /\ calls[c].pc = 0 /\ calls[c].n = 1 /\ calls[c].err = "nil"
         /\ calls[d].pc = 0 /\ calls[d].n = 1 /\ calls[d].err = "nil"
         /\ calls[c].op # calls[d].op
         /\ calls[c].args.taskID = calls[d].args.taskID)
        => CallReflected(calls[c]) /\ CallReflected(calls[d])

====
